---- MODULE Spec2Model ----
(***************************************************************************)
(* A model of fatiando's "planting anomalous densities" inversion          *)
(* (fatiando/potential/harvester.py): the prism mesh adjacency, the data   *)
(* modules (DMPrism and DMPrismI2), the prism seeds (SeedPrism) and the    *)
(* solver (harvest / _harvest_solver).                                     *)
(*                                                                         *)
(* Numbers.  Cell indices, densities, observed and predicted data are      *)
(* integers.  The floating point quantities of the code (norms, weights,   *)
(* misfits, distances, goal values) are fixed-point numbers: the integer v *)
(* stands for the real v / Scale, every operation rounding down.  A misfit *)
(* weight is kept as the fraction num / den so that the division by the    *)
(* number of data modules stays exact.                                     *)
(***************************************************************************)
EXTENDS Integers, Sequences, FiniteSets, TLC

VARIABLES
    mesh,        \* the PrismMesh: [shape |-> <<nz, ny, nx>>, dims |-> <<dx, dy, dz>>, mask |-> absent cells]
    seeds,       \* harvest: the list of SeedPrism objects
    dms,         \* the list of data modules
    goals,       \* _harvest_solver: goals
    misfits,     \* _harvest_solver: misfits
    pc,          \* position of the running call
    cur,         \* harvest: position in the current "for ... in ..." loop
    grew,        \* _harvest_solver: grew
    estimate,    \* harvest: the returned estimate (property name -> cell -> value)
    absorbed,    \* history: per data module, the cells update() has absorbed
    accretions,  \* history: the accepted accretions <<seed position, cell>>, in order
    lastCall,    \* data module API: the last call made, with its arguments
    ret          \* the value returned (or raised) by the last call

vars == <<mesh, seeds, dms, goals, misfits, pc, cur, grew, estimate,
          absorbed, accretions, lastCall, ret>>

(***************************************************************************)
(* Bounds of the model.                                                    *)
(***************************************************************************)
\* meshes have at most MaxCells cells (nz * ny * nx <= MaxCells)
MaxCells == 4
\* harvest is run with at most MaxSeeds seeds
MaxSeeds == 2
\* observation arrays handed to a data module constructor have 1..MaxLen entries
MaxLen == 2
\* a free sequence of data module calls has at most MaxCalls calls
MaxCalls == 3
\* fixed-point resolution: the integer v stands for v / Scale
Scale == 100

(***************************************************************************)
(* Generic helpers.                                                        *)
(***************************************************************************)
Abs(x) == IF x < 0 THEN -x ELSE x

Range(s) == {s[k] : k \in 1..Len(s)}

Last(s) == s[Len(s)]

RECURSIVE SumSeq(_)
SumSeq(s) == IF s = <<>> THEN 0 ELSE s[1] + SumSeq(Tail(s))

\* the list f[1], ..., f[n] as a tuple (its entries evaluated once)
Tuple(f, n) == SubSeq(f, 1, n)

\* floor of the square root of x >= 0
RECURSIVE ISqrtBetween(_, _, _)
ISqrtBetween(x, lo, hi) ==
    IF lo >= hi THEN lo
    ELSE LET mid == (lo + hi + 1) \div 2
         IN IF mid * mid <= x THEN ISqrtBetween(x, mid, hi)
                              ELSE ISqrtBetween(x, lo, mid - 1)

ISqrt(x) == ISqrtBetween(x, 0, IF x < 46340 THEN x ELSE 46340)

\* math.sqrt of an integer, as a fixed-point number (large arguments lose the
\* fraction instead of leaving the integer range)
SqrtFP(x) == IF x <= 100000 THEN ISqrt(Scale * Scale * x) ELSE Scale * ISqrt(x)

(***************************************************************************)
(* The mesh (fatiando.mesher.ddd.PrismMesh, consumed through its           *)
(* interface): cells 0 .. size-1, index = i + j*nx + k*nx*ny, mesh[c] is   *)
(* None for a masked cell.                                                 *)
(***************************************************************************)
Shapes == {sh \in (1..MaxCells) \X (1..MaxCells) \X (1..MaxCells) :
              sh[1] * sh[2] * sh[3] <= MaxCells}

MeshSize(m) == m.shape[1] * m.shape[2] * m.shape[3]

Cells(m) == 0 .. MeshSize(m) - 1

\* mesh[c] is not None
Present(m, c) == c \notin m.mask

\* (i, j, k) of cell c
CellI(m, c) == c % m.shape[3]
CellJ(m, c) == (c \div m.shape[3]) % m.shape[2]
CellK(m, c) == c \div (m.shape[3] * m.shape[2])

\* the meshes of the model: any shape, cubic or x-stretched cells, at most one masked cell
Meshes == {[shape |-> sh, dims |-> d, mask |-> mk] :
              sh \in Shapes, d \in {<<1, 1, 1>>, <<2, 1, 1>>},
              mk \in {{}} \cup {{c} : c \in 0 .. MaxCells - 1}}

MeshOK(m) == m.mask \subseteq Cells(m)

(***************************************************************************)
(* SeedPrism._find_neighbors                                               *)
(***************************************************************************)
Opt(b, v) == IF b THEN <<v>> ELSE <<>>

\* "if up and tmp > 0"
HasAbove(m, n, up) == up /\ n - m.shape[3] * m.shape[2] > 0

\* "if n%nx < nx - 1"
HasFront(m, n) == n % m.shape[3] < m.shape[3] - 1

\* a _find_neighbors that does not leave out the masked cells: the cells one
\* step away from n, in ascending order
MutFindNeighborsKeepsMasked(m, n, full, up, down) ==
    LET near == {c \in Cells(m) :
                    Abs(CellI(m, c) - CellI(m, n)) + Abs(CellJ(m, c) - CellJ(m, n))
                        + Abs(CellK(m, c) - CellK(m, n)) = 1}
    IN CHOOSE sq \in [1..Cardinality(near) -> near] :
           \A a, b \in 1..Cardinality(near) : a < b => sq[a] < sq[b]

FindNeighbors(m, n, full, up, down) ==
    LET ny == m.shape[2]
        nx == m.shape[3]
        hasAbove == HasAbove(m, n, up)
        hasBellow == down /\ n + nx * ny < MeshSize(m)
        hasFront == HasFront(m, n)
        hasBack == n % nx # 0
        hasLeft == n % (nx * ny) < nx * (ny - 1)
        hasRight == n % (nx * ny) >= nx
        above == n - nx * ny
        bellow == n + nx * ny
        front == n + 1
        back == n - 1
        left == n + nx
        right == n - nx
        indexes == Opt(hasAbove, above) \o Opt(hasBellow, bellow)
                   \o Opt(hasFront, front) \o Opt(hasBack, back)
                   \o Opt(hasLeft, left) \o Opt(hasRight, right)
        diagonal ==
               Opt(hasFront /\ hasLeft, left + 1)
            \o Opt(hasFront /\ hasRight, right + 1)
            \o Opt(hasBack /\ hasLeft, left - 1)
            \o Opt(hasBack /\ hasRight, right - 1)
            \o Opt(hasAbove /\ hasLeft, above + nx)
            \o Opt(hasAbove /\ hasRight, above - nx)
            \o Opt(hasAbove /\ hasFront, above + 1)
            \o Opt(hasAbove /\ hasBack, above - 1)
            \o Opt(hasAbove /\ hasFront /\ hasLeft, above + nx + 1)
            \o Opt(hasAbove /\ hasFront /\ hasRight, above - nx + 1)
            \o Opt(hasAbove /\ hasBack /\ hasLeft, above + nx - 1)
            \o Opt(hasAbove /\ hasBack /\ hasRight, above - nx - 1)
            \o Opt(hasBellow /\ hasLeft, bellow + nx)
            \o Opt(hasBellow /\ hasRight, bellow - nx)
            \o Opt(hasBellow /\ hasFront, bellow + 1)
            \o Opt(hasBellow /\ hasBack, bellow - 1)
            \o Opt(hasBellow /\ hasFront /\ hasLeft, bellow + nx + 1)
            \o Opt(hasBellow /\ hasFront /\ hasRight, bellow - nx + 1)
            \o Opt(hasBellow /\ hasBack /\ hasLeft, bellow + nx - 1)
            \o Opt(hasBellow /\ hasBack /\ hasRight, bellow - nx - 1)
        all == IF full THEN indexes \o diagonal ELSE indexes
        NotMasked(i) == Present(m, i)
    IN SelectSeq(all, NotMasked)

(***************************************************************************)
(* The forward kernels (fatiando.potential.prism, consumed through their   *)
(* interface): the field of component comp that a unit-density prism c     *)
(* causes at observation point p.  gz is positive; the tensor components   *)
(* take both signs.  The field of a prism is linear in its density.        *)
(***************************************************************************)
Components == <<"gz", "gxx", "gxy", "gxz", "gyy", "gyz", "gzz">>

CompNo(comp) == CHOOSE q \in 1..Len(Components) : Components[q] = comp

Kernel(comp, c, p) ==
    IF comp = "gz" THEN 1 + ((c + p) % 2)
    ELSE ((c + CompNo(comp) + p) % 3) - 1

\* pot_prism.<comp>(xp, yp, zp, cells): cells is a list of [index, props];
\* a prism without a density contributes nothing
FieldOfCells(comp, n, cells) ==
    [p \in 1..n |->
        SumSeq([k \in 1..Len(cells) |->
            IF "density" \in DOMAIN cells[k].props
            THEN cells[k].props["density"] * Kernel(comp, cells[k].index, p)
            ELSE 0])]

(***************************************************************************)
(* Data modules: DMPrism and its subclasses                                *)
(***************************************************************************)
VecAdd(u, v) == [p \in 1..Len(u) |-> u[p] + v[p]]

VecSub(u, v) == [p \in 1..Len(u) |-> u[p] - v[p]]

\* numpy.linalg.norm(v, order), fixed-point
NormFP(v, order) ==
    IF order = 1 THEN Scale * SumSeq([p \in 1..Len(v) |-> Abs(v[p])])
    ELSE SqrtFP(SumSeq([p \in 1..Len(v) |-> v[p] * v[p]]))

\* "len(xp) != len(yp) != len(zp) != len(data)": a chained comparison
LengthsRejected(lx, ly, lz, ld) == lx # ly /\ ly # lz /\ lz # ld

\* DMPrism.__init__ (and the subclass constructors, which set prop_type):
\* the new module, or the error raised
NewDM(kind, data, lx, ly, lz, order) ==
    IF order \notin {1, 2} THEN [error |-> "ValueError: invalid norm"]
    ELSE IF LengthsRejected(lx, ly, lz, Len(data))
    THEN [error |-> "ValueError: lengths"]
    ELSE [error |-> "none",
          kind |-> kind,
          data |-> data,
          predicted |-> [p \in 1..Len(data) |-> 0],
          lens |-> <<lx, ly, lz, Len(data)>>,
          norm |-> order,
          weight |-> [num |-> Scale, den |-> NormFP(data, order)],
          effect |-> <<>>,
          prop_type |-> "density",
          estimate |-> <<>>]

\* number of observation points of a module built from equally long arrays
NumObs(dm) == dm.lens[1]

\* DMPrism.misfit
Misfit(dm, predicted) ==
    (dm.weight.num * NormFP(VecSub(dm.data, predicted), dm.norm)) \div dm.weight.den

\* DMPrismG*._effect_of_prism
EffectOfPrism(dm, index, props) ==
    [p \in 1..NumObs(dm) |-> props[dm.prop_type] * Kernel(dm.kind, index, p)]

\* DMPrismI2._effect_of_cells
EffectOfCells(n, cells) ==
    LET gxx == FieldOfCells("gxx", n, cells)
        gxy == FieldOfCells("gxy", n, cells)
        gxz == FieldOfCells("gxz", n, cells)
        gyy == FieldOfCells("gyy", n, cells)
        gyz == FieldOfCells("gyz", n, cells)
        gzz == FieldOfCells("gzz", n, cells)
    IN [p \in 1..n |->
           gxx[p] * (gyy[p] * gzz[p] - gyz[p] * gyz[p])
         + gxy[p] * (gyz[p] * gxz[p] - gxy[p] * gzz[p])
         + gxz[p] * (gxy[p] * gyz[p] - gxz[p] * gyy[p])]

\* an update that leaves the cache entry in place
MutCacheDelKeeps(effect, index) == effect

\* the effect cache with the entry of index dropped ("del self.effect[index]")
CacheDel(effect, index) == [c \in DOMAIN effect \ {index} |-> effect[c]]

\* the effect cache with an entry for index ("self.effect[index] = ...")
CachePut(effect, index, e) ==
    [c \in DOMAIN effect \cup {index} |-> IF c = index THEN e ELSE effect[c]]

\* a cache that hands out an entry of another cell when it has one
MutCacheFillAny(dm, index, props) ==
    IF index \in DOMAIN dm.effect \/ DOMAIN dm.effect = {} THEN
        IF index \in DOMAIN dm.effect THEN dm.effect
        ELSE CachePut(dm.effect, index, EffectOfPrism(dm, index, props))
    ELSE CachePut(dm.effect, index, dm.effect[CHOOSE c \in DOMAIN dm.effect : TRUE])

\* "if index not in self.effect: self.effect[index] = self._effect_of_prism(...)"
CacheFill(dm, index, props) ==
    IF index \in DOMAIN dm.effect THEN dm.effect
    ELSE CachePut(dm.effect, index, EffectOfPrism(dm, index, props))

\* an update that leaves the predicted data as they are
MutUpdateLinearSkips(dm, index, props) == dm

\* DMPrism.update: the module after the call
UpdateLinear(dm, index, props) ==
    IF dm.prop_type \in DOMAIN props
    THEN LET filled == CacheFill(dm, index, props)
         IN [dm EXCEPT !.predicted = VecAdd(dm.predicted, filled[index]),
                       !.effect = CacheDel(filled, index)]
    ELSE dm

\* DMPrismI2.update: the module after the call
UpdateI2(dm, index, props) ==
    LET cells == Append(dm.estimate, [index |-> index, props |-> props])
    IN [dm EXCEPT !.estimate = cells,
                  !.predicted = EffectOfCells(NumObs(dm), cells)]

Update(dm, index, props) ==
    IF dm.kind = "I2" THEN UpdateI2(dm, index, props)
    ELSE UpdateLinear(dm, index, props)

\* a testdrive that adds the effect to self.predicted in place
MutTestdriveInPlace(dm, index, props) ==
    IF dm.prop_type \notin DOMAIN props
    THEN [dm |-> dm, value |-> Misfit(dm, dm.predicted)]
    ELSE LET filled == CacheFill(dm, index, props)
             tmp == VecAdd(dm.predicted, filled[index])
         IN [dm |-> [dm EXCEPT !.effect = filled, !.predicted = tmp],
             value |-> Misfit(dm, tmp)]

\* DMPrism.testdrive: [dm |-> the module after the call, value |-> the misfit returned]
TestdriveLinear(dm, index, props) ==
    IF dm.prop_type \notin DOMAIN props
    THEN [dm |-> dm, value |-> Misfit(dm, dm.predicted)]
    ELSE LET filled == CacheFill(dm, index, props)
             tmp == VecAdd(dm.predicted, filled[index])
         IN [dm |-> [dm EXCEPT !.effect = filled], value |-> Misfit(dm, tmp)]

\* DMPrismI2.testdrive
TestdriveI2(dm, index, props) ==
    IF dm.prop_type \notin DOMAIN props
    THEN [dm |-> dm, value |-> Misfit(dm, dm.predicted)]
    ELSE LET tmp == EffectOfCells(NumObs(dm),
                        Append(dm.estimate, [index |-> index, props |-> props]))
         IN [dm |-> dm, value |-> Misfit(dm, tmp)]

Testdrive(dm, index, props) ==
    IF dm.kind = "I2" THEN TestdriveI2(dm, index, props)
    ELSE TestdriveLinear(dm, index, props)

(***************************************************************************)
(* Seeds: SeedPrism                                                        *)
(***************************************************************************)
\* mesh.get_xs(), get_ys(), get_zs(): the n + 1 ascending cell edges along one
\* axis, the mesh starting at 0 (fixed-point coordinates)
Edges(n, d) == [e \in 1..n + 1 |-> (e - 1) * d * Scale]

\* bisect.bisect_left(edges, x) on an ascending list
BisectLeft(edges, x) == Cardinality({e \in 1..Len(edges) : edges[e] < x})

\* a point inside cell c: its centre
CellCentre(m, c) ==
    <<((2 * CellI(m, c) + 1) * m.dims[1] * Scale) \div 2,
      ((2 * CellJ(m, c) + 1) * m.dims[2] * Scale) \div 2,
      ((2 * CellK(m, c) + 1) * m.dims[3] * Scale) \div 2>>

\* SeedPrism._get_index: [ok, index]
GetIndex(m, point) ==
    LET nz == m.shape[1]
        ny == m.shape[2]
        nx == m.shape[3]
        xs == Edges(nx, m.dims[1])
        ys == Edges(ny, m.dims[2])
        zs == Edges(nz, m.dims[3])
        x == point[1]
        y == point[2]
        z == point[3]
        k == BisectLeft(zs, z) - 1
        j == BisectLeft(ys, y) - 1
        i == BisectLeft(xs, x) - 1
        s == i + j * nx + k * nx * ny
    IN IF /\ x <= Last(xs) /\ x >= xs[1] /\ y <= Last(ys) /\ y >= ys[1]
          /\ z <= Last(zs) /\ z >= zs[1]
          /\ Present(m, s)
       THEN [ok |-> TRUE, index |-> s]
       ELSE [ok |-> FALSE, index |-> 0]

\* SeedPrism.__init__; mu and delta are fractions [num, den]
NewSeed(m, point, props, mu, delta, reldist) ==
    LET found == GetIndex(m, point)
        nz == m.shape[1]
        ny == m.shape[2]
        nx == m.shape[3]
        extent == IF reldist THEN nx + ny + nz
                  ELSE nx * m.dims[1] + ny * m.dims[2] + nz * m.dims[3]
    IN IF ~found.ok THEN [error |-> "ValueError: couldn't find seed"]
       ELSE [error |-> "none",
             kind |-> "prism",
             index |-> found.index,
             props |-> props,
             delta |-> delta,
             estimate |-> <<found.index>>,
             neighbors |-> <<>>,
             reg |-> 0,
             distance |-> <<>>,
             reldist |-> reldist,
             mu |-> (mu.num * 3 * Scale) \div (mu.den * extent)]

\* SeedPrism._get_relative_distances / _get_absolute_distances: the distance of n
DistanceTo(seed, m, n) ==
    LET di == CellI(m, seed.index) - CellI(m, n)
        dj == CellJ(m, seed.index) - CellJ(m, n)
        dk == CellK(m, seed.index) - CellK(m, n)
    IN IF seed.reldist THEN SqrtFP(di * di + dj * dj + dk * dk)
       ELSE SqrtFP((di * m.dims[1]) * (di * m.dims[1])
                 + (dj * m.dims[2]) * (dj * m.dims[2])
                 + (dk * m.dims[3]) * (dk * m.dims[3]))

\* self._get_distances(neighbors): the distance table afterwards
GetDistances(seed, m, nbrs) ==
    [n \in DOMAIN seed.distance \cup Range(nbrs) |->
        IF n \in Range(nbrs) THEN DistanceTo(seed, m, n) ELSE seed.distance[n]]

\* an _is_neighbor that looks at the frontier of every seed, whatever its properties
MutIsNeighborAny(self, n, allseeds) ==
    \E k \in 1..Len(allseeds) : n \in Range(allseeds[k].neighbors)

\* SeedPrism._is_neighbor
IsNeighbor(self, n, allseeds) ==
    \E k \in 1..Len(allseeds) : \E p \in DOMAIN self.props :
        p \in DOMAIN allseeds[k].props /\ n \in Range(allseeds[k].neighbors)

\* _in_estimate looking at this seed's own estimate only
MutInEstimateOwn(self, n, allseeds) == n \in Range(self.estimate)

\* _in_estimate looking at the estimates of the other seeds only
MutInEstimateOthers(self, n, allseeds) ==
    \E k \in 1..Len(allseeds) : \E p \in DOMAIN self.props :
        /\ allseeds[k] # self
        /\ p \in DOMAIN allseeds[k].props /\ n \in Range(allseeds[k].estimate)

\* SeedPrism._in_estimate
InEstimate(self, n, allseeds) ==
    \E k \in 1..Len(allseeds) : \E p \in DOMAIN self.props :
        p \in DOMAIN allseeds[k].props /\ n \in Range(allseeds[k].estimate)

\* a _not_neighbors that filters nothing
MutNotNeighborsAll(self, allseeds, nbrs) == nbrs

\* SeedPrism._not_neighbors
NotNeighbors(self, allseeds, nbrs) ==
    LET Keep(n) == ~IsNeighbor(self, n, allseeds) IN SelectSeq(nbrs, Keep)

\* _are_free that filters nothing
MutAreFreeAll(self, allseeds, nbrs) == nbrs

\* SeedPrism._are_free
AreFree(self, allseeds, nbrs) ==
    LET Keep(n) == ~InEstimate(self, n, allseeds) IN SelectSeq(nbrs, Keep)

\* the neighbours of n this seed may take
NewNeighbors(self, m, n, allseeds) ==
    NotNeighbors(self, allseeds,
        AreFree(self, allseeds, FindNeighbors(m, n, FALSE, TRUE, TRUE)))

\* SeedPrism.initialize: seed k of allseeds afterwards
Initialize(allseeds, m, k) ==
    LET self == allseeds[k]
        nbrs == self.neighbors \o NewNeighbors(self, m, self.index, allseeds)
    IN [self EXCEPT !.neighbors = nbrs,
                    !.distance = GetDistances(self, m, nbrs)]

\* list.remove(n): the list without the first occurrence of n
RemoveFirst(s, n) ==
    LET at == CHOOSE i \in 1..Len(s) : s[i] = n /\ \A h \in 1..i - 1 : s[h] # n
    IN SubSeq(s, 1, at - 1) \o SubSeq(s, at + 1, Len(s))

\* SeedPrism._update_neighbors: seed k of allseeds afterwards
UpdateNeighbors(allseeds, m, k, n) ==
    LET self == allseeds[k]
        new == NewNeighbors(self, m, n, allseeds)
        dropped == [self EXCEPT !.distance =
                       [c \in DOMAIN self.distance \ {n} |-> self.distance[c]]]
    IN [dropped EXCEPT !.neighbors = RemoveFirst(self.neighbors, n) \o new,
                       !.distance = GetDistances(dropped, m, new)]

\* the test of _judge without the relative threshold
MutDecreasesAny(m, misfit, delta) == m < misfit

\* a test that lets through a candidate that leaves the misfit as it is
MutDecreasesOrKeeps(m, misfit, delta) ==
    m <= misfit /\ Abs(m - misfit) * delta.den >= delta.num * misfit

\* a test that asks for a drop to half the misfit or less
MutDecreasesByHalf(m, misfit, delta) ==
    2 * m <= misfit /\ m < misfit /\ Abs(m - misfit) * delta.den >= delta.num * misfit

\* the test of SeedPrism._judge: "m < misfit and abs(m - misfit)/misfit >= self.delta"
Decreases(m, misfit, delta) ==
    m < misfit /\ Abs(m - misfit) * delta.den >= delta.num * misfit

\* a _judge that takes the last of the candidates tied for the lowest goal
MutJudgeLastTie(self, cgoals, cmisfits, misfit) ==
    LET decreased == {i \in 1..Len(cmisfits) : Decreases(cmisfits[i], misfit, self.delta)}
    IN IF decreased = {} THEN 0
       ELSE CHOOSE i \in decreased :
               \A h \in decreased :
                   cgoals[i] < cgoals[h] \/ (cgoals[i] = cgoals[h] /\ i >= h)

\* a _judge whose choice among tied candidates is not the same in every run
MutJudgeByRun(self, cgoals, cmisfits, misfit) ==
    LET decreased == {i \in 1..Len(cmisfits) : Decreases(cmisfits[i], misfit, self.delta)}
        again == lastCall # [op |-> "none"]
    IN IF decreased = {} THEN 0
       ELSE CHOOSE i \in decreased :
               \A h \in decreased :
                   \/ cgoals[i] < cgoals[h]
                   \/ cgoals[i] = cgoals[h] /\ (IF again THEN i >= h ELSE i <= h)

\* a _judge that compares the candidates with the first misfit of the run
\* instead of the misfit it is handed
MutJudgeAgainstFirst(self, cgoals, cmisfits, misfit) ==
    LET decreased == {i \in 1..Len(cmisfits) :
                         Decreases(cmisfits[i], misfits[1], self.delta)}
    IN IF decreased = {} THEN 0
       ELSE CHOOSE i \in decreased :
               \A h \in decreased :
                   cgoals[i] < cgoals[h] \/ (cgoals[i] = cgoals[h] /\ i <= h)

\* SeedPrism._judge: the position of the best neighbour, 0 for None
\* (numpy.argmin returns the first minimum)
Judge(self, cgoals, cmisfits, misfit) ==
    LET decreased == {i \in 1..Len(cmisfits) : Decreases(cmisfits[i], misfit, self.delta)}
    IN IF decreased = {} THEN 0
       ELSE CHOOSE i \in decreased :
               \A h \in decreased :
                   cgoals[i] < cgoals[h] \/ (cgoals[i] = cgoals[h] /\ i <= h)

\* the testdrive calls of grow on one data module, neighbour after neighbour:
\* [dm |-> the module afterwards, values |-> the misfits returned]
RECURSIVE TestdriveAll(_, _, _)
TestdriveAll(dm, nbrs, props) ==
    IF nbrs = <<>> THEN [dm |-> dm, values |-> <<>>]
    ELSE LET first == Testdrive(dm, nbrs[1], props)
             rest == TestdriveAll(first.dm, Tail(nbrs), props)
         IN [dm |-> rest.dm, values |-> <<first.value>> \o rest.values]

\* a regularizer that costs nothing
MutRegTermFree(self, n) == 0

\* mu * distance, fixed-point
RegTerm(self, n) == (self.mu * self.distance[n]) \div Scale

\* an accretion that overwrites the estimate
MutAccreteOverwrite(self, n) == [self EXCEPT !.estimate = <<n>>]

\* the seed with cell n accreted ("self.estimate.append(index)")
Accrete(self, n) == [self EXCEPT !.estimate = Append(self.estimate, n)]

\* SeedPrism.grow for seed k: what it returns and what it leaves behind
\* [grown, index, goal, misfit, seeds, dms]
Grow(alldms, allseeds, m, k, misfit) ==
    LET self == allseeds[k]
        driven == Tuple([d \in 1..Len(alldms) |->
                            TestdriveAll(alldms[d], self.neighbors, self.props)],
                        Len(alldms))
        tested == [d \in 1..Len(alldms) |-> driven[d].dm]
        cmisfits == Tuple([i \in 1..Len(self.neighbors) |->
                              SumSeq([d \in 1..Len(alldms) |-> driven[d].values[i]])],
                          Len(self.neighbors))
        regularizer == SumSeq([s \in 1..Len(allseeds) |-> allseeds[s].reg])
        cgoals == Tuple([i \in 1..Len(self.neighbors) |->
                            cmisfits[i] + regularizer
                            + RegTerm(self, self.neighbors[i])],
                        Len(self.neighbors))
        best == Judge(self, cgoals, cmisfits, misfit)
    IN IF best = 0
       THEN [grown |-> FALSE, index |-> 0, goal |-> 0, misfit |-> 0,
             seeds |-> allseeds, dms |-> tested]
       ELSE LET index == self.neighbors[best]
                added == [Accrete(self, index) EXCEPT
                             !.reg = self.reg + RegTerm(self, index)]
                withadded == [allseeds EXCEPT ![k] = added]
            IN [grown |-> TRUE, index |-> index,
                goal |-> cgoals[best], misfit |-> cmisfits[best],
                seeds |-> [allseeds EXCEPT
                              ![k] = UpdateNeighbors(withadded, m, k, index)],
                dms |-> tested]

\* a _cat_estimate that gives every cell the values of the first seed
MutCatEstimateFirst(allseeds) ==
    LET names == UNION {DOMAIN allseeds[k].props : k \in 1..Len(allseeds)}
        Keys(prop) == UNION {Range(allseeds[k].estimate) :
                                k \in {h \in 1..Len(allseeds) :
                                          prop \in DOMAIN allseeds[h].props}}
        first(prop) == CHOOSE h \in 1..Len(allseeds) :
                          /\ prop \in DOMAIN allseeds[h].props
                          /\ \A g \in 1..h - 1 : prop \notin DOMAIN allseeds[g].props
    IN [prop \in names |-> [c \in Keys(prop) |-> allseeds[first(prop)].props[prop]]]

\* _cat_estimate: property name -> (cell -> value); dict() keeps the last pair
\* given for a cell
CatEstimate(allseeds) ==
    LET names == UNION {DOMAIN allseeds[k].props : k \in 1..Len(allseeds)}
        Holders(prop, c) == {k \in 1..Len(allseeds) :
                                /\ prop \in DOMAIN allseeds[k].props
                                /\ c \in Range(allseeds[k].estimate)}
        Keys(prop) == UNION {Range(allseeds[k].estimate) :
                                k \in {h \in 1..Len(allseeds) :
                                          prop \in DOMAIN allseeds[h].props}}
    IN [prop \in names |->
           [c \in Keys(prop) |->
               LET k == CHOOSE h \in Holders(prop, c) :
                            \A g \in Holders(prop, c) : g <= h
               IN allseeds[k].props[prop]]]

(***************************************************************************)
(* harvest and _harvest_solver                                             *)
(***************************************************************************)
\* the inputs of the model: the property names of each seed of a run, seed k
\* carrying the value k for each of its properties
AllSchemes ==
    {<<{"density"}>>,
     <<{"density"}, {"density"}>>,
     <<{"density"}, {"magnetization"}>>,
     <<{"magnetization"}, {"density"}>>,
     <<{"density"}, {"density", "magnetization"}>>,
     <<{"density"}, {}>>,
     <<{"density"}, {"density", "magnetization"}, {"magnetization"}>>,
     <<{"density"}, {"density"}, {"density"}>>}

Schemes == {sc \in AllSchemes : Len(sc) <= MaxSeeds}

SchemeProps(scheme, k) == [p \in scheme[k] |-> k]

\* the inputs of the model: regularization, threshold, distance type, the data
\* modules (component and norm) and the density of the body that produced the
\* observed data
Setups ==
    {[mu |-> [num |-> 0, den |-> 1], delta |-> [num |-> 0, den |-> 1],
      reldist |-> FALSE, modules |-> <<<<"gz", 1>>>>, body |-> 2],
     [mu |-> [num |-> 1, den |-> 1], delta |-> [num |-> 1, den |-> 4],
      reldist |-> TRUE, modules |-> <<<<"gz", 2>>, <<"gzz", 1>>>>, body |-> 1],
     [mu |-> [num |-> 1, den |-> 2], delta |-> [num |-> 0, den |-> 1],
      reldist |-> FALSE, modules |-> <<<<"I2", 1>>>>, body |-> 1],
     [mu |-> [num |-> 0, den |-> 1], delta |-> [num |-> 1, den |-> 10],
      reldist |-> TRUE, modules |-> <<<<"gxy", 1>>, <<"gz", 1>>>>, body |-> 3]}

\* the observed data of one component: the field of the whole mesh filled with
\* one density
BodyCells(m, dens) ==
    LET present == {c \in Cells(m) : Present(m, c)}
        Nth(i) == CHOOSE c \in present : Cardinality({b \in present : b < c}) = i - 1
    IN [i \in 1..Cardinality(present) |->
           [index |-> Nth(i), props |-> [p \in {"density"} |-> dens]]]

ObservedData(m, kind, n, dens) ==
    IF kind = "I2" THEN EffectOfCells(n, BodyCells(m, dens))
    ELSE FieldOfCells(kind, n, BodyCells(m, dens))

\* lists of n distinct cells that are not masked
Placements(m, n) ==
    {sq \in [1..n -> Cells(m)] :
        /\ \A a, b \in 1..n : a # b => sq[a] # sq[b]
        /\ \A a \in 1..n : Present(m, sq[a])}

\* the meshes harvest is run on: nothing masked, or the last cell masked
HarvestMeshes ==
    {m \in Meshes : m.mask \in {{}, {MeshSize(m) - 1}}}

\* the runs of the model: masked meshes are run with the gz set-up only,
\* stretched cells with absolute distances, cubic cells with relative ones
Runs ==
    {r \in [mesh : HarvestMeshes, scheme : Schemes, setup : Setups] :
        /\ r.mesh.mask = {} \/ r.setup.modules = <<<<"gz", 1>>>>
        /\ r.setup.reldist <=> r.mesh.dims = <<1, 1, 1>>}

NoCall == [op |-> "none"]

Init ==
    \E run \in Runs :
    \E cells \in Placements(run.mesh, Len(run.scheme)) :
    LET m == run.mesh
        scheme == run.scheme
        setup == run.setup
    IN  /\ mesh = m
        /\ seeds = [k \in 1..Len(cells) |->
                       NewSeed(m, CellCentre(m, cells[k]), SchemeProps(scheme, k),
                               setup.mu, setup.delta, setup.reldist)]
        /\ dms = [d \in 1..Len(setup.modules) |->
                     NewDM(setup.modules[d][1],
                           ObservedData(m, setup.modules[d][1], MaxLen, setup.body),
                           MaxLen, MaxLen, MaxLen, setup.modules[d][2])]
        /\ \A d \in 1..Len(dms) : dms[d].weight.den > 0
        /\ goals = <<>>
        /\ misfits = <<>>
        /\ pc = "initialize"
        /\ cur = 1
        /\ grew = FALSE
        /\ estimate = <<>>
        /\ absorbed = [d \in 1..Len(setup.modules) |-> {}]
        /\ accretions = <<>>
        /\ lastCall = NoCall
        /\ ret = 0

\* harvest: "for i, seed in enumerate(seeds): seed.initialize(seeds)", one seed
InitializeSeed ==
    /\ pc = "initialize"
    /\ cur <= Len(seeds)
    /\ seeds' = [seeds EXCEPT ![cur] = Initialize(seeds, mesh, cur)]
    /\ IF cur = Len(seeds)
       THEN pc' = "modules" /\ cur' = 1
       ELSE pc' = pc /\ cur' = cur + 1
    /\ UNCHANGED <<mesh, dms, goals, misfits, grew, estimate, absorbed,
                   accretions, lastCall, ret>>

\* a set-up loop that updates the module with the first seed only
MutUpdateAllFirstOnly(dm, allseeds, k) ==
    Update(dm, allseeds[1].index, allseeds[1].props)

\* dm.update(seed.seed) for every seed, in order
RECURSIVE UpdateAll(_, _, _)
UpdateAll(dm, allseeds, k) ==
    IF k > Len(allseeds) THEN dm
    ELSE UpdateAll(Update(dm, allseeds[k].index, allseeds[k].props), allseeds, k + 1)

\* "dm.weight /= float(len(dms))"
DivideWeight(dm, n) == [dm EXCEPT !.weight.den = dm.weight.den * n]

\* update(index, props) adds the cell to what dm has accumulated
Absorbs(dm, props) == dm.kind = "I2" \/ dm.prop_type \in DOMAIN props

\* harvest: the body of "for dm in dms", one data module
SetupModule ==
    /\ pc = "modules"
    /\ cur <= Len(dms)
    /\ dms' = [dms EXCEPT ![cur] = UpdateAll(DivideWeight(dms[cur], Len(dms)), seeds, 1)]
    /\ absorbed' = [absorbed EXCEPT ![cur] =
                       @ \cup {seeds[k].index : k \in {h \in 1..Len(seeds) :
                                                  Absorbs(dms[cur], seeds[h].props)}}]
    /\ IF cur = Len(dms)
       THEN pc' = "goal" /\ cur' = 1
       ELSE pc' = pc /\ cur' = cur + 1
    /\ UNCHANGED <<mesh, seeds, goals, misfits, grew, estimate, accretions,
                   lastCall, ret>>

\* harvest: "goal = sum(dm.misfit(dm.predicted) for dm in dms)" and the first
\* lines of _harvest_solver
FirstGoal ==
    /\ pc = "goal"
    /\ LET goal == SumSeq([d \in 1..Len(dms) |-> Misfit(dms[d], dms[d].predicted)])
       IN /\ goals' = <<goal>>
          /\ misfits' = <<goal>>
    /\ pc' = "round"
    /\ cur' = 1
    /\ grew' = FALSE
    /\ UNCHANGED <<mesh, seeds, dms, estimate, absorbed, accretions, lastCall, ret>>

\* _harvest_solver: the body of "for seed in seeds" when the seed grows
GrowAccepted ==
    /\ pc = "round"
    /\ cur <= Len(seeds)
    /\ \E change \in {Grow(dms, seeds, mesh, cur, Last(misfits))} :
          /\ change.grown
          /\ seeds' = change.seeds
          /\ goals' = Append(goals, change.goal)
          /\ misfits' = Append(misfits, change.misfit)
          /\ dms' = [d \in 1..Len(dms) |->
                        Update(change.dms[d], change.index, seeds[cur].props)]
          /\ absorbed' = [d \in 1..Len(dms) |->
                             IF Absorbs(dms[d], seeds[cur].props)
                             THEN absorbed[d] \cup {change.index}
                             ELSE absorbed[d]]
          /\ accretions' = Append(accretions, <<cur, change.index>>)
    /\ grew' = TRUE
    /\ cur' = cur + 1
    /\ UNCHANGED <<mesh, pc, estimate, lastCall, ret>>

\* _harvest_solver: the body of "for seed in seeds" when grow returns None
GrowRejected ==
    /\ pc = "round"
    /\ cur <= Len(seeds)
    /\ \E change \in {Grow(dms, seeds, mesh, cur, Last(misfits))} :
          /\ ~change.grown
          /\ dms' = change.dms
    /\ cur' = cur + 1
    /\ UNCHANGED <<mesh, seeds, goals, misfits, pc, grew, estimate, absorbed,
                   accretions, lastCall, ret>>

\* _harvest_solver: the end of a round in which a seed grew
NextRound ==
    /\ pc = "round"
    /\ cur > Len(seeds)
    /\ grew
    /\ grew' = FALSE
    /\ cur' = 1
    /\ UNCHANGED <<mesh, seeds, dms, goals, misfits, pc, estimate, absorbed,
                   accretions, lastCall, ret>>

\* _harvest_solver: "if not grew: break", _cat_estimate and the return
Finish ==
    /\ pc = "round"
    /\ cur > Len(seeds)
    /\ ~grew
    /\ estimate' = CatEstimate(seeds)
    /\ pc' = "done"
    /\ UNCHANGED <<mesh, seeds, dms, goals, misfits, cur, grew, absorbed,
                   accretions, lastCall, ret>>

Next ==
    \/ InitializeSeed
    \/ SetupModule
    \/ FirstGoal
    \/ GrowAccepted
    \/ GrowRejected
    \/ NextRound
    \/ Finish

Spec == Init /\ [][Next]_vars

(***************************************************************************)
(* The data module interface on its own: a module is constructed and then  *)
(* receives a bounded sequence of update and testdrive calls.              *)
(***************************************************************************)
\* the mesh the lone data module is built on
ModuleMesh == [shape |-> <<1, 1, 2>>, dims |-> <<1, 1, 1>>, mask |-> {}]

\* the property dictionaries passed to update and testdrive
CallProps ==
    {[p \in {"density"} |-> 1], [p \in {"density"} |-> 2],
     [p \in {"magnetization"} |-> 1]}

ModuleInit ==
    /\ mesh = ModuleMesh
    /\ seeds = <<>>
    /\ dms = <<>>
    /\ goals = <<>>
    /\ misfits = <<>>
    /\ pc = "new"
    /\ cur = 0
    /\ grew = FALSE
    /\ estimate = <<>>
    /\ absorbed = <<{}>>
    /\ accretions = <<>>
    /\ lastCall = NoCall
    /\ ret = 0

\* DMPrismGz(...), DMPrismGxy(...) or DMPrismI2(...): the constructor call
Construct ==
    /\ pc = "new"
    /\ \E kind \in {"gz", "gxy", "I2"}, lx, ly, lz, ld \in 1..MaxLen, order \in 0..2 :
          LET made == NewDM(kind, [p \in 1..ld |-> p + 1], lx, ly, lz, order)
          IN /\ lastCall' = [op |-> "new", lens |-> <<lx, ly, lz, ld>>, norm |-> order]
             /\ IF made.error = "none"
                THEN dms' = <<made>> /\ pc' = "ready" /\ ret' = 0
                ELSE dms' = dms /\ pc' = "raised" /\ ret' = made.error
    /\ UNCHANGED <<mesh, seeds, goals, misfits, cur, grew, estimate, absorbed,
                   accretions>>

\* the module was built from arrays of one length, so that its vectors add up
WellFormed(dm) == \A a, b \in 1..4 : dm.lens[a] = dm.lens[b]

\* dm.update((index, props))
UpdateCall ==
    /\ pc = "ready"
    /\ WellFormed(dms[1])
    /\ cur < MaxCalls
    /\ \E index \in Cells(mesh), props \in CallProps :
          /\ dms' = <<Update(dms[1], index, props)>>
          /\ lastCall' = [op |-> "update", index |-> index, props |-> props, no |-> cur + 1]
          /\ absorbed' = IF Absorbs(dms[1], props)
                         THEN <<absorbed[1] \cup {index}>> ELSE absorbed
    /\ cur' = cur + 1
    /\ ret' = 0
    /\ UNCHANGED <<mesh, seeds, goals, misfits, pc, grew, estimate, accretions>>

\* dm.testdrive((index, props))
TestdriveCall ==
    /\ pc = "ready"
    /\ WellFormed(dms[1])
    /\ cur < MaxCalls
    /\ \E index \in Cells(mesh), props \in CallProps :
       \E result \in {Testdrive(dms[1], index, props)} :
          /\ dms' = <<result.dm>>
          /\ ret' = result.value
          /\ lastCall' = [op |-> "testdrive", index |-> index, props |-> props, no |-> cur + 1]
    /\ cur' = cur + 1
    /\ UNCHANGED <<mesh, seeds, goals, misfits, pc, grew, estimate, absorbed,
                   accretions>>

ModuleNext ==
    \/ Construct
    \/ UpdateCall
    \/ TestdriveCall

ModuleSpec == ModuleInit /\ [][ModuleNext]_vars

\* harvest runs, and data modules used on their own
ModuleOrHarvestInit == Init \/ ModuleInit

ModuleOrHarvestNext == Next \/ ModuleNext

ModuleOrHarvestSpec == ModuleOrHarvestInit /\ [][ModuleOrHarvestNext]_vars

(***************************************************************************)
(* SeedPrism._find_neighbors on its own: the function applied to any cell  *)
(* of any mesh.                                                            *)
(***************************************************************************)
NeighborsInit ==
    /\ mesh \in {m \in Meshes : MeshOK(m)}
    /\ seeds = <<>>
    /\ dms = <<>>
    /\ goals = <<>>
    /\ misfits = <<>>
    /\ pc = "mesh"
    /\ cur = 0
    /\ grew = FALSE
    /\ estimate = <<>>
    /\ absorbed = <<>>
    /\ accretions = <<>>
    /\ lastCall = NoCall
    /\ ret = <<>>

\* seed._find_neighbors(n, full)
FindNeighborsCall ==
    /\ pc = "mesh"
    /\ \E n \in Cells(mesh), full \in BOOLEAN :
          /\ Present(mesh, n)
          /\ lastCall' = [op |-> "find_neighbors", n |-> n, full |-> full]
          /\ ret' = FindNeighbors(mesh, n, full, TRUE, TRUE)
    /\ UNCHANGED <<mesh, seeds, dms, goals, misfits, pc, cur, grew, estimate,
                   absorbed, accretions>>

NeighborsNext == FindNeighborsCall

NeighborsSpec == NeighborsInit /\ [][NeighborsNext]_vars

(***************************************************************************)
(* A linear data module absorbing distinct cells, each with its own fixed  *)
(* properties, in any order, with testdrive calls on the same cells in     *)
(* between.                                                                *)
(***************************************************************************)
\* the mesh whose cells are absorbed
AdditiveMesh == [shape |-> <<1, 1, MaxCells - 1>>, dims |-> <<1, 1, 1>>, mask |-> {}]

\* the fixed properties of cell c in these calls
CellProps(c) == [p \in {"density"} |-> c + 1]

AdditiveInit ==
    /\ mesh = AdditiveMesh
    /\ seeds = <<>>
    /\ \E kind \in {"gz", "gxy", "gzz"}, order \in {1, 2} :
          dms = <<NewDM(kind, [p \in 1..MaxLen |-> p + 1], MaxLen, MaxLen, MaxLen, order)>>
    /\ goals = <<>>
    /\ misfits = <<>>
    /\ pc = "additive"
    /\ cur = 0
    /\ grew = FALSE
    /\ estimate = <<>>
    /\ absorbed = <<{}>>
    /\ accretions = <<>>
    /\ lastCall = NoCall
    /\ ret = 0

\* dm.update((index, props)) on a cell not updated before
UpdateDistinct ==
    /\ pc = "additive"
    /\ \E index \in Cells(mesh) \ absorbed[1] :
          /\ dms' = <<Update(dms[1], index, CellProps(index))>>
          /\ absorbed' = <<absorbed[1] \cup {index}>>
          /\ lastCall' = [op |-> "update", index |-> index, props |-> CellProps(index)]
    /\ ret' = 0
    /\ UNCHANGED <<mesh, seeds, goals, misfits, pc, cur, grew, estimate, accretions>>

\* dm.testdrive((index, props)) on any of the cells, updated already or not
TestdriveSame ==
    /\ pc = "additive"
    /\ \E index \in Cells(mesh) :
       \E result \in {Testdrive(dms[1], index, CellProps(index))} :
          /\ dms' = <<result.dm>>
          /\ ret' = result.value
          /\ lastCall' = [op |-> "testdrive", index |-> index, props |-> CellProps(index)]
    /\ UNCHANGED <<mesh, seeds, goals, misfits, pc, cur, grew, estimate, absorbed,
                   accretions>>

AdditiveNext ==
    \/ UpdateDistinct
    \/ TestdriveSame

AdditiveSpec == AdditiveInit /\ [][AdditiveNext]_vars

(***************************************************************************)
(* harvest called a second time with the data module objects of the first  *)
(* call and seeds sown again at the same points.                           *)
(***************************************************************************)
\* a seed as its constructor makes it
SownAgain(seed) ==
    [seed EXCEPT !.estimate = <<seed.index>>, !.neighbors = <<>>, !.reg = 0,
                 !.distance = <<>>]

\* harvest(dms, seeds) once more: the data modules are the objects the first
\* call left behind
HarvestAgain ==
    /\ pc = "done"
    /\ lastCall = NoCall
    /\ seeds' = [k \in 1..Len(seeds) |-> SownAgain(seeds[k])]
    /\ goals' = <<>>
    /\ misfits' = <<>>
    /\ pc' = "initialize"
    /\ cur' = 1
    /\ grew' = FALSE
    /\ estimate' = <<>>
    /\ accretions' = <<>>
    /\ lastCall' = [op |-> "harvest", no |-> 2]
    /\ UNCHANGED <<mesh, dms, absorbed, ret>>

RerunNext == Next \/ HarvestAgain

RerunSpec == Init /\ [][RerunNext]_vars

(***************************************************************************)
(* harvest from its first line: the iterate flag and the kinds of the      *)
(* seeds are examined before anything is initialized.                      *)
(***************************************************************************)
\* the seeds sow builds for a run
RunSeeds(run, cells) ==
    [k \in 1..Len(cells) |->
        NewSeed(run.mesh, CellCentre(run.mesh, cells[k]), SchemeProps(run.scheme, k),
                run.setup.mu, run.setup.delta, run.setup.reldist)]

\* the data modules constructed for a run
RunModules(run) ==
    [d \in 1..Len(run.setup.modules) |->
        NewDM(run.setup.modules[d][1],
              ObservedData(run.mesh, run.setup.modules[d][1], MaxLen, run.setup.body),
              MaxLen, MaxLen, MaxLen, run.setup.modules[d][2])]

\* the kind attributes of n seeds: all prisms, or prisms mixed with seeds of
\* another kind
KindLists(n) ==
    {ks \in [1..n -> {"prism", "other"}] :
        \E a \in 1..n : ks[a] = "prism"}

\* a test that never finds the kinds to differ
MutKindsNeverMixed(allseeds) == FALSE

\* "kinds.count(kinds[0]) != len(kinds)"
KindsMixed(allseeds) ==
    Cardinality({a \in 1..Len(allseeds) : allseeds[a].kind = allseeds[1].kind})
        # Len(allseeds)

\* a test that takes the iterate flag to be off
MutIterateIgnored(call) == FALSE

\* "if iterate:"
IterateRequested(call) == call.iterate

EntryInit ==
    \E run \in Runs :
    \E cells \in Placements(run.mesh, Len(run.scheme)) :
    \E kinds \in KindLists(Len(run.scheme)), iterate \in BOOLEAN :
        /\ mesh = run.mesh
        /\ seeds = [k \in 1..Len(cells) |->
                       [RunSeeds(run, cells)[k] EXCEPT !.kind = kinds[k]]]
        /\ dms = RunModules(run)
        /\ \A d \in 1..Len(dms) : dms[d].weight.den > 0
        /\ goals = <<>>
        /\ misfits = <<>>
        /\ pc = "call"
        /\ cur = 1
        /\ grew = FALSE
        /\ estimate = <<>>
        /\ absorbed = [d \in 1..Len(run.setup.modules) |-> {}]
        /\ accretions = <<>>
        /\ lastCall = [op |-> "harvest", iterate |-> iterate]
        /\ ret = 0

\* harvest: the iterate test and the test of the kinds
Enter ==
    /\ pc = "call"
    /\ IF IterateRequested(lastCall)
       THEN pc' = "raised" /\ ret' = "NotImplementedError"
       ELSE IF KindsMixed(seeds)
       THEN pc' = "raised" /\ ret' = "ValueError: kinds"
       ELSE pc' = "initialize" /\ ret' = ret
    /\ UNCHANGED <<mesh, seeds, dms, goals, misfits, cur, grew, estimate, absorbed,
                   accretions, lastCall>>

EntryNext == Enter \/ Next

EntrySpec == EntryInit /\ [][EntryNext]_vars

(***************************************************************************)
(* sow on its own: a list of points, some of them in the same cell, some   *)
(* in a masked cell.                                                       *)
(***************************************************************************)
\* the props of the seed of point i: "sprops[p] = props[p][i]", the value of
\* point i being i
PointProps(i) == [p \in {"density"} |-> i]

\* a test that never finds a duplicate
MutIsDuplicateNever(sown, seed) == FALSE

\* the negation of "seed.seed[0] not in (s.seed[0] for s in seeds)"
IsDuplicate(sown, seed) == \E a \in 1..Len(sown) : sown[a].index = seed.index

\* sow from point i on, `sown` being the seeds kept so far:
\* [error |-> "none" or the error raised, seeds |-> the list returned]
RECURSIVE SowFrom(_, _, _, _)
SowFrom(m, points, i, sown) ==
    IF i > Len(points) THEN [error |-> "none", seeds |-> sown]
    ELSE LET seed == NewSeed(m, points[i], PointProps(i),
                             [num |-> 1, den |-> 1], [num |-> 0, den |-> 1], FALSE)
         IN IF seed.error # "none" THEN [error |-> seed.error, seeds |-> <<>>]
            ELSE IF IsDuplicate(sown, seed) THEN SowFrom(m, points, i + 1, sown)
            ELSE SowFrom(m, points, i + 1, Append(sown, seed))

\* sow(points, props, mesh)
Sow(m, points) == SowFrom(m, points, 1, <<>>)

SowInit ==
    /\ mesh \in HarvestMeshes
    /\ seeds = <<>>
    /\ dms = <<>>
    /\ goals = <<>>
    /\ misfits = <<>>
    /\ pc = "sow"
    /\ cur = 0
    /\ grew = FALSE
    /\ estimate = <<>>
    /\ absorbed = <<>>
    /\ accretions = <<>>
    /\ lastCall = NoCall
    /\ ret = "none"

\* seeds = sow(points, props, mesh), the points being centres of cells
SowCall ==
    /\ pc = "sow"
    /\ \E n \in 1..MaxSeeds + 1 : \E cells \in [1..n -> Cells(mesh)] :
       \E result \in {Sow(mesh, [i \in 1..n |-> CellCentre(mesh, cells[i])])} :
          /\ lastCall' = [op |-> "sow", cells |-> cells]
          /\ seeds' = result.seeds
          /\ ret' = result.error
    /\ pc' = "sown"
    /\ UNCHANGED <<mesh, dms, goals, misfits, cur, grew, estimate, absorbed,
                   accretions>>

SowNext == SowCall

SowSpec == SowInit /\ [][SowNext]_vars

(***************************************************************************)
(* SeedPrism._get_index on its own: points inside the mesh, on its bounds, *)
(* on the faces between cells and outside.                                 *)
(***************************************************************************)
\* coordinates along an axis of n cells of width d: below the mesh, every edge,
\* every cell centre, above the mesh
AxisPoints(n, d) ==
    {-1} \cup {(e * d * Scale) \div 2 : e \in 0 .. 2 * n} \cup {n * d * Scale + 1}

\* the points handed to _get_index on mesh m
PointsOf(m) ==
    AxisPoints(m.shape[3], m.dims[1]) \X AxisPoints(m.shape[2], m.dims[2])
        \X AxisPoints(m.shape[1], m.dims[3])

\* what _get_index can do: for s >= 0 what the code computes; a negative s is
\* handed to mesh[s], which the mesh either rejects or, when -size <= s, takes
\* as an index from the end: the call fails, or returns s itself when the cell
\* size + s is not masked
GetIndexOutcomes(m, point) ==
    LET found == GetIndex(m, point)
        failed == [ok |-> FALSE, index |-> 0]
    IN IF found.ok /\ found.index < 0
       THEN IF found.index >= -MeshSize(m) /\ Present(m, MeshSize(m) + found.index)
            THEN {found, failed}
            ELSE {failed}
       ELSE {found}

IndexInit ==
    /\ mesh \in {m \in Meshes : MeshOK(m)}
    /\ seeds = <<>>
    /\ dms = <<>>
    /\ goals = <<>>
    /\ misfits = <<>>
    /\ pc = "index"
    /\ cur = 0
    /\ grew = FALSE
    /\ estimate = <<>>
    /\ absorbed = <<>>
    /\ accretions = <<>>
    /\ lastCall = NoCall
    /\ ret = [ok |-> FALSE, index |-> 0]

\* SeedPrism(point, props, mesh): the call of self._get_index(point, mesh)
GetIndexCall ==
    /\ pc = "index"
    /\ \E point \in PointsOf(mesh) : \E found \in GetIndexOutcomes(mesh, point) :
          /\ lastCall' = [op |-> "get_index", point |-> point]
          /\ ret' = found
    /\ pc' = "indexed"
    /\ UNCHANGED <<mesh, seeds, dms, goals, misfits, cur, grew, estimate, absorbed,
                   accretions>>

IndexNext == GetIndexCall

IndexSpec == IndexInit /\ [][IndexNext]_vars

(***************************************************************************)
(* harvest run twice from the same initial state: after the first run the  *)
(* seeds are sown again and the data modules are constructed again from    *)
(* the same observed data.                                                 *)
(***************************************************************************)
\* a data module constructed again from the data of dm
BuiltAgain(dm) ==
    NewDM(dm.kind, dm.data, dm.lens[1], dm.lens[2], dm.lens[3], dm.norm)

\* what a run of harvest produced
Produced ==
    [estimate |-> estimate, goals |-> goals, misfits |-> misfits,
     accretions |-> accretions]

\* the second run starts; what the first run produced is kept for comparison
HarvestTwin ==
    /\ pc = "done"
    /\ lastCall = NoCall
    /\ ret' = Produced
    /\ seeds' = [k \in 1..Len(seeds) |-> SownAgain(seeds[k])]
    /\ dms' = [d \in 1..Len(dms) |-> BuiltAgain(dms[d])]
    /\ absorbed' = [d \in 1..Len(dms) |-> {}]
    /\ goals' = <<>>
    /\ misfits' = <<>>
    /\ pc' = "initialize"
    /\ cur' = 1
    /\ grew' = FALSE
    /\ estimate' = <<>>
    /\ accretions' = <<>>
    /\ lastCall' = [op |-> "harvest", no |-> 2]
    /\ UNCHANGED mesh

TwinNext == Next \/ HarvestTwin

TwinSpec == Init /\ [][TwinNext]_vars

(***************************************************************************)
(* The matrix solver (fatiando.inversion.pgrav3d).  Its module globals are *)
(* kept in dms as one record [jacobian, mesh, data, data_vector,           *)
(* distances] (the depth weights are not modelled); the                    *)
(* arguments of the running call are in lastCall, the seeds in seeds       *)
(* ([param, density, neighbors]), the parameter vector in estimate, the    *)
(* residuals in misfits and the cells marked for each seed in accretions.  *)
(***************************************************************************)
\* None; a global that is set holds a one-element tuple
None == <<>>

\* the module globals at import and after clear()
Cleared ==
    [jacobian |-> None, mesh |-> None, data |-> None, data_vector |-> None,
     distances |-> None]

RECURSIVE Pow(_, _)
Pow(b, e) == IF e = 0 THEN 1 ELSE b * Pow(b, e - 1)

\* the 26 cells _add_neighbors looks at around param, in the order of the
\* code; ok is the test that guards each of them
Around(shape, param) ==
    LET nz == shape[1]
        ny == shape[2]
        nx == shape[3]
        a == param - nx * ny
        b == param + nx * ny
        l == param + nx
        r == param - nx
        above == a > 0
        bellow == b < nz * ny * nx
        front == param % nx < nx - 1
        back == param % nx # 0
        left == param % (nx * ny) < nx * (ny - 1)
        right == param % (nx * ny) >= nx
    IN << [ok |-> above, n |-> a],
          [ok |-> bellow, n |-> b],
          [ok |-> front, n |-> param + 1],
          [ok |-> back, n |-> param - 1],
          [ok |-> left, n |-> l],
          [ok |-> right, n |-> r],
          [ok |-> front /\ left, n |-> l + 1],
          [ok |-> front /\ right, n |-> r + 1],
          [ok |-> back /\ left, n |-> l - 1],
          [ok |-> back /\ right, n |-> r - 1],
          [ok |-> above /\ left, n |-> a + nx],
          [ok |-> above /\ right, n |-> a - nx],
          [ok |-> above /\ front, n |-> a + 1],
          [ok |-> above /\ back, n |-> a - 1],
          [ok |-> above /\ front /\ left, n |-> a + nx + 1],
          [ok |-> above /\ front /\ right, n |-> a - nx + 1],
          [ok |-> above /\ back /\ left, n |-> a + nx - 1],
          [ok |-> above /\ back /\ right, n |-> a - nx - 1],
          [ok |-> bellow /\ left, n |-> b + nx],
          [ok |-> bellow /\ right, n |-> b - nx],
          [ok |-> bellow /\ front, n |-> b + 1],
          [ok |-> bellow /\ back, n |-> b - 1],
          [ok |-> bellow /\ front /\ left, n |-> b + nx + 1],
          [ok |-> bellow /\ front /\ right, n |-> b - nx + 1],
          [ok |-> bellow /\ back /\ left, n |-> b + nx - 1],
          [ok |-> bellow /\ back /\ right, n |-> b - nx - 1] >>

\* _add_neighbors(param, neighbors, seeds, mesh, estimate): neighbors with
\* the cells around param appended that are in no list of lists (the
\* 'neighbors' of the seeds passed) and have a zero estimate
AddNeighbors(param, neighbors, lists, shape, est) ==
    LET around == Around(shape, param)
        Free(c) == /\ c.ok
                   /\ \A k \in DOMAIN lists : c.n \notin Range(lists[k])
                   /\ est[c.n] = 0
        added == SelectSeq(around, Free)
    IN neighbors \o [k \in 1..Len(added) |-> added[k].n]

\* grow: the estimate with the densities of the seeds set, in their order
RECURSIVE SeedEstimate(_, _, _)
SeedEstimate(allseeds, k, est) ==
    IF k > Len(allseeds) THEN est
    ELSE SeedEstimate(allseeds, k + 1,
                      [est EXCEPT ![allseeds[k].param] = allseeds[k].density])

\* grow: the neighbors of each seed before the conflicts are resolved; each
\* seed is sent alone to _add_neighbors
InitialNeighbors(allseeds, shape, est) ==
    [k \in 1..Len(allseeds) |->
        AddNeighbors(allseeds[k].param, allseeds[k].neighbors,
                     <<allseeds[k].neighbors>>, shape, est)]

\* grow, conflict resolution of seed i from position at of its list on:
\* 'for neighbor in seed[neighbors]' walks the list by position while
\* remove() shortens it, so the entry after a removed one is passed over
RECURSIVE ResolveSeed(_, _, _, _)
ResolveSeed(lists, allseeds, i, at) ==
    IF at > Len(lists[i]) THEN [raised |-> FALSE, lists |-> lists]
    ELSE LET neighbor == lists[i][at]
             holders == {j \in DOMAIN lists :
                            j # i /\ neighbor \in Range(lists[j])}
         IN IF holders = {} THEN ResolveSeed(lists, allseeds, i, at + 1)
            ELSE LET j == CHOOSE h \in holders : \A g \in holders : h <= g
                 IN IF allseeds[i].density = allseeds[j].density
                    THEN ResolveSeed(
                             [lists EXCEPT ![i] = RemoveFirst(@, neighbor)],
                             allseeds, i, at + 1)
                    ELSE [raised |-> TRUE, lists |-> lists]

\* grow, conflict resolution of the seeds i, i+1, ...
RECURSIVE ResolveConflicts(_, _, _)
ResolveConflicts(lists, allseeds, i) ==
    IF i > Len(allseeds) THEN [raised |-> FALSE, lists |-> lists]
    ELSE LET one == ResolveSeed(lists, allseeds, i, 1)
         IN IF one.raised THEN one
            ELSE ResolveConflicts(one.lists, allseeds, i + 1)

\* the arguments of a call of grow
GrowCall(data, mmi, power, variance) ==
    [op |-> "grow", data |-> data, mmi |-> mmi, power |-> power,
     apriori_variance |-> variance]

\* grow up to the end of the conflict resolution
GrowStart ==
    /\ pc = "grow"
    /\ LET est == SeedEstimate(seeds, 1, [c \in Cells(mesh) |-> 0])
           first == InitialNeighbors(seeds, mesh.shape, est)
           res == ResolveConflicts(first, seeds, 1)
       IN /\ estimate' = est
          /\ seeds' = [k \in 1..Len(seeds) |->
                          [seeds[k] EXCEPT !.neighbors = res.lists[k]]]
          /\ pc' = IF res.raised THEN "raised" ELSE "jacobian"
          /\ ret' = IF res.raised THEN "AttributeError: too close" ELSE ret
    /\ dms' = [dms EXCEPT !.mesh = <<mesh>>, !.data = <<lastCall.data>>]
    /\ UNCHANGED <<mesh, goals, misfits, cur, grew, absorbed, accretions,
                   lastCall>>

\* The forward code of the prism is not part of the repository.  The
\* vertical attraction of a cell of unit density falls off with the
\* horizontal distance d to the observation point as 1/(1 + d^2)^(3/2);
\* the table holds it times 1000 for d^2 = 0, 1, 2, ...
AttractionTable ==
    <<1000, 354, 192, 125, 89, 68, 54, 44, 37, 32, 27, 24, 21, 19, 17, 16,
      14, 13, 12, 11, 10, 10, 9, 9, 8, 8, 7, 7, 6, 6>>

\* gz of cell c with unit density at the observation point above cell o
Attraction(m, o, c) ==
    LET dx == CellI(m, c) - CellI(m, o)
        dy == CellJ(m, c) - CellJ(m, o)
        far == dx * dx + dy * dy
    IN IF far < Len(AttractionTable) THEN AttractionTable[far + 1] ELSE 5

\* _build_pgrav3d_jacobian: one row per observation of the data in the
\* globals, one column per cell of the mesh in the globals; built only when
\* nothing is cached
BuildJacobian(g) ==
    IF g.jacobian = None
    THEN [p \in 1..Len(g.data[1].value) |->
             [c \in 1..MeshSize(g.mesh[1]) |->
                 Attraction(g.mesh[1], g.data[1].at[p], c - 1)]]
    ELSE g.jacobian[1]

\* numpy's matrix.T
Transpose(matrix) ==
    [c \in 1..Len(matrix[1]) |-> [p \in 1..Len(matrix) |-> matrix[p][c]]]

\* numpy.dot(matrix, vector)
Dot(matrix, vector) ==
    [p \in 1..Len(matrix) |->
        SumSeq([c \in 1..Len(vector) |-> matrix[p][c] * vector[c]])]

\* density*_jacobian[cell] with the transposed matrix in the globals
Effect(g, density, cell) ==
    LET row == g.jacobian[1][cell + 1]
    IN [p \in 1..Len(row) |-> density * row[p]]

\* (residuals*residuals).sum()
SumSquares(residuals) ==
    SumSeq([p \in 1..Len(residuals) |-> residuals[p] * residuals[p]])

\* _dist_to_seed: the distance in cells from cell c to the seed
DistToSeed(m, c, seed) ==
    LET dx == Abs(CellI(m, c) - CellI(m, seed.param))
        dy == Abs(CellJ(m, c) - CellJ(m, seed.param))
        dz == Abs(CellK(m, c) - CellK(m, seed.param))
    IN IF dx >= dy /\ dx >= dz THEN dx ELSE IF dy >= dz THEN dy ELSE dz

\* _calc_mmi_goal: _distances, computed only when nothing is cached
Distances(g, allseeds) ==
    IF g.distances = None
    THEN [c \in Cells(g.mesh[1]) |->
             LET all == {DistToSeed(g.mesh[1], c, allseeds[k]) :
                            k \in 1..Len(allseeds)}
             IN CHOOSE d \in all : \A e \in all : d <= e]
    ELSE g.distances[1]

\* _calc_mmi_goal: weights.max() for the distances d
MaxWeight(d, power) ==
    LET all == {Pow(d[c], power) : c \in DOMAIN d}
    IN CHOOSE w \in all : \A v \in all : w >= v

\* The goal function values are kept multiplied by GoalScale, the largest
\* weight of _calc_mmi_goal (1 without regularization), so that they stay
\* integers: goal*GoalScale = rms*GoalScale + mmi*sum(estimate^2 * d^power)
GoalScale(g, call) ==
    IF call.mmi = 0 THEN 1 ELSE MaxWeight(g.distances[1], call.power)

\* _calc_mmi_goal(estimate, mmi, power, seeds), times GoalScale
CalcMmiGoal(g, call, est) ==
    IF call.mmi = 0 THEN 0
    ELSE LET cells == DOMAIN est
             terms == [c \in 1..Cardinality(cells) |->
                          est[c - 1] * est[c - 1]
                              * Pow(g.distances[1][c - 1], call.power)]
         IN call.mmi * SumSeq(terms)

\* rms + reg_goal for the residuals and the estimate est, times GoalScale
GoalOf(g, call, residuals, est) ==
    SumSquares(residuals) * GoalScale(g, call) + CalcMmiGoal(g, call, est)

\* xrange(mesh.size - len(seeds)): the number of rounds of grow
Rounds(m, allseeds) ==
    IF MeshSize(m) > Len(allseeds) THEN MeshSize(m) - Len(allseeds) ELSE 0

\* grow returns: the Jacobian in the globals is transposed back
Return(g) == [g EXCEPT !.jacobian = <<Transpose(@[1])>>]

\* numpy can multiply the transposed Jacobian g.jacobian of the globals
\* with the estimate, subtract the product from the data vector and weigh
\* the estimate with the distances: the shapes fit the mesh and the data of
\* the call
Aligned(g, m, call) ==
    /\ Len(g.jacobian[1]) = MeshSize(m)
    /\ Len(g.jacobian[1][1]) = Len(call.data.value)
    /\ call.mmi = 0 \/ DOMAIN g.distances[1] = Cells(m)

\* grow from the Jacobian to the start of the first round; with a matrix or
\* distances cached for another mesh or data numpy raises, after the
\* Jacobian of the globals was transposed
GrowPrepare ==
    /\ pc = "jacobian"
    /\ LET g == [dms EXCEPT !.jacobian = <<Transpose(BuildJacobian(dms))>>,
                            !.distances = IF lastCall.mmi = 0 THEN @
                                          ELSE <<Distances(dms, seeds)>>]
           vector == [c \in 1..MeshSize(mesh) |-> estimate[c - 1]]
           residuals == VecSub(lastCall.data.value,
                               Dot(Transpose(g.jacobian[1]), vector))
       IN IF ~Aligned(g, mesh, lastCall)
          THEN /\ dms' = g
               /\ pc' = "raised"
               /\ ret' = "ValueError: shapes not aligned"
               /\ UNCHANGED <<misfits, goals, cur>>
          ELSE /\ misfits' = residuals
               /\ goals' = <<GoalOf(g, lastCall, residuals, estimate)>>
               /\ IF Rounds(mesh, seeds) = 0
                  THEN /\ dms' = Return(g)
                       /\ pc' = "returned"
                       /\ ret' = [estimate |-> estimate, goals |-> goals']
                       /\ UNCHANGED cur
                  ELSE /\ dms' = g
                       /\ pc' = "growth"
                       /\ cur' = [iteration |-> 1, seed_num |-> 1]
                       /\ UNCHANGED ret
    /\ accretions' = [k \in 1..Len(seeds) |-> <<>>]
    /\ grew' = [grew |-> FALSE, rearanged |-> FALSE]
    /\ UNCHANGED <<mesh, seeds, estimate, absorbed, lastCall>>

\* grow, the trial of the neighbors of a seed from position at on: each
\* neighbor is set to the density for the regularizer and to 0 afterwards;
\* the first neighbor with the smallest goal below best.goal is kept
\* a growth step that takes the first neighbour of the list, whatever its
\* goal
RECURSIVE MutTryNeighborsFirst(_, _, _, _, _, _, _)
MutTryNeighborsFirst(g, call, density, residuals, nbrs, at, state) ==
    IF at > Len(nbrs) THEN state
    ELSE LET neighbor == nbrs[at]
             goal == GoalOf(g, call,
                            VecSub(residuals, Effect(g, density, neighbor)),
                            [state.est EXCEPT ![neighbor] = density])
         IN MutTryNeighborsFirst(g, call, density, residuals, nbrs, at + 1,
                [est |-> [state.est EXCEPT ![neighbor] = 0],
                 best |-> IF state.best.neighbor = None
                          THEN [goal |-> goal, neighbor |-> <<neighbor>>]
                          ELSE state.best])

RECURSIVE TryNeighbors(_, _, _, _, _, _, _)
TryNeighbors(g, call, density, residuals, nbrs, at, state) ==
    IF at > Len(nbrs) THEN state
    ELSE LET neighbor == nbrs[at]
             goal == GoalOf(g, call,
                            VecSub(residuals, Effect(g, density, neighbor)),
                            [state.est EXCEPT ![neighbor] = density])
         IN TryNeighbors(g, call, density, residuals, nbrs, at + 1,
                [est |-> [state.est EXCEPT ![neighbor] = 0],
                 best |-> IF goal < state.best.goal
                          THEN [goal |-> goal, neighbor |-> <<neighbor>>]
                          ELSE state.best])

\* one round of growth is over for the last seed
AfterGrowth(grown) ==
    IF cur.seed_num < Len(seeds)
    THEN /\ pc' = "growth"
         /\ cur' = [cur EXCEPT !.seed_num = @ + 1]
    ELSE /\ pc' = IF grown THEN "variance" ELSE "rearrange"
         /\ cur' = [cur EXCEPT !.seed_num = 1]

\* grow: one seed tries to grow by one cell
TryGrow ==
    /\ pc = "growth"
    /\ LET k == cur.seed_num
           density == seeds[k].density
           tried == TryNeighbors(dms, lastCall, density, misfits,
                                 seeds[k].neighbors, 1,
                                 [est |-> estimate,
                                  best |-> [goal |-> Last(goals),
                                            neighbor |-> None]])
       IN IF tried.best.neighbor = None
          THEN /\ estimate' = tried.est
               /\ AfterGrowth(grew.grew)
               /\ UNCHANGED <<seeds, misfits, goals, accretions, grew>>
          ELSE LET best == tried.best.neighbor[1]
                   est == [tried.est EXCEPT ![best] = density]
                   left == [seeds EXCEPT
                               ![k].neighbors = RemoveFirst(@, best)]
                   lists == [h \in 1..Len(seeds) |-> left[h].neighbors]
               IN /\ estimate' = est
                  /\ misfits' = VecSub(misfits, Effect(dms, density, best))
                  /\ goals' = Append(goals, tried.best.goal)
                  /\ accretions' = [accretions EXCEPT ![k] = Append(@, best)]
                  /\ seeds' = [left EXCEPT ![k].neighbors =
                                  AddNeighbors(best, @, lists, mesh.shape, est)]
                  /\ grew' = [grew EXCEPT !.grew = TRUE]
                  /\ AfterGrowth(TRUE)
    /\ UNCHANGED <<mesh, dms, absorbed, lastCall, ret>>

\* grow, rearrangement: the sole neighbors of param leave the copy tmp of
\* the seed's list one by one; remove() of a cell that is not in the list
\* raises ValueError
RECURSIVE RemoveSole(_, _, _)
RemoveSole(tmp, sole, at) ==
    IF at > Len(sole) THEN [raised |-> FALSE, list |-> tmp]
    ELSE IF sole[at] \notin Range(tmp) THEN [raised |-> TRUE, list |-> tmp]
    ELSE RemoveSole(RemoveFirst(tmp, sole[at]), sole, at + 1)

\* grow, rearrangement: the trial of the cells of tmp_neighbors in place of
\* param from position at on.  best_neighbors is tmp_neighbors itself, so
\* the param appended to it is met later by the same loop.
RECURSIVE TryMoves(_, _, _, _, _, _, _, _)
TryMoves(g, call, density, residuals, param, tmp, at, state) ==
    IF at > Len(tmp) THEN state
    ELSE LET neighbor == tmp[at]
             goal == GoalOf(g, call,
                            VecSub(residuals, Effect(g, density, neighbor)),
                            [state.est EXCEPT ![neighbor] = density])
             better == goal < state.best.goal
             list == IF better THEN Append(tmp, param) ELSE tmp
         IN TryMoves(g, call, density, residuals, param, list, at + 1,
                [est |-> [state.est EXCEPT ![neighbor] = 0],
                 best |-> IF better
                          THEN [goal |-> goal, param |-> <<neighbor>>,
                                remove |-> param, neighbors |-> list]
                          ELSE state.best])

\* grow, rearrangement of one seed: the marked cells from position at on
RECURSIVE TryParams(_, _, _, _, _, _, _, _, _)
TryParams(g, call, m, density, residuals, own, others, marked, scan) ==
    IF scan.at > Len(marked) THEN scan
    ELSE LET param == marked[scan.at]
             param_neighbors == AddNeighbors(param, <<>>, others, m.shape,
                                             scan.est)
             Sole(n) == Len(AddNeighbors(n, <<>>, others, m.shape,
                                         scan.est)) < 26
             removed == RemoveSole(own, SelectSeq(param_neighbors, Sole), 1)
         IN IF param_neighbors = <<>>
            THEN TryParams(g, call, m, density, residuals, own, others,
                           marked, [scan EXCEPT !.at = @ + 1])
            ELSE IF removed.raised THEN [scan EXCEPT !.raised = TRUE]
            ELSE LET tried == TryMoves(g, call, density,
                                  VecAdd(residuals, Effect(g, density, param)),
                                  param, removed.list, 1,
                                  [est |-> [scan.est EXCEPT ![param] = 0],
                                   best |-> scan.best])
                 IN TryParams(g, call, m, density, residuals, own, others,
                        marked,
                        [at |-> scan.at + 1, raised |-> FALSE,
                         est |-> [tried.est EXCEPT ![param] = density],
                         best |-> tried.best])

\* the rearrangement is over for the last seed: without any move the loop
\* is left and grow returns
AfterRearrange(moved, est) ==
    IF cur.seed_num < Len(seeds)
    THEN /\ pc' = "rearrange"
         /\ cur' = [cur EXCEPT !.seed_num = @ + 1]
         /\ UNCHANGED <<dms, ret>>
    ELSE IF moved
    THEN /\ pc' = "variance"
         /\ cur' = [cur EXCEPT !.seed_num = 1]
         /\ UNCHANGED <<dms, ret>>
    ELSE /\ pc' = "returned"
         /\ dms' = Return(dms)
         /\ ret' = [estimate |-> est, goals |-> goals]
         /\ UNCHANGED cur

\* grow: one seed tries to move one of its marked cells
TryRearrange ==
    /\ pc = "rearrange"
    /\ LET k == cur.seed_num
           density == seeds[k].density
           others == [h \in 1..Len(seeds) - 1 |->
                         seeds[IF h < k THEN h ELSE h + 1].neighbors]
           scan == TryParams(dms, lastCall, mesh, density, misfits,
                             seeds[k].neighbors, others, accretions[k],
                             [at |-> 1, raised |-> FALSE, est |-> estimate,
                              best |-> [goal |-> Last(goals), param |-> None,
                                        remove |-> None, neighbors |-> None]])
       IN IF scan.raised
          THEN /\ pc' = "raised"
               /\ ret' = "ValueError: list.remove(x): x not in list"
               /\ UNCHANGED <<seeds, misfits, goals, accretions, grew,
                              estimate, cur, dms>>
          ELSE IF scan.best.param = None
          THEN /\ estimate' = scan.est
               /\ AfterRearrange(grew.rearanged, scan.est)
               /\ UNCHANGED <<seeds, misfits, goals, accretions, grew>>
          ELSE LET best == [scan.best EXCEPT !.param = @[1]]
                   est == [[scan.est EXCEPT ![best.remove] = 0]
                              EXCEPT ![best.param] = density]
                   left == [seeds EXCEPT ![k].neighbors =
                               RemoveFirst(best.neighbors, best.param)]
                   lists == [h \in 1..Len(seeds) |-> left[h].neighbors]
               IN /\ estimate' = est
                  /\ misfits' = VecSub(VecAdd(misfits,
                                           Effect(dms, density, best.remove)),
                                       Effect(dms, density, best.param))
                  /\ goals' = Append(goals, best.goal)
                  /\ accretions' = [accretions EXCEPT ![k] =
                         Append(RemoveFirst(@, best.remove), best.param)]
                  /\ seeds' = [left EXCEPT ![k].neighbors =
                         AddNeighbors(best.param, @, lists, mesh.shape, est)]
                  /\ grew' = [grew EXCEPT !.rearanged = TRUE]
                  /\ AfterRearrange(TRUE, est)
    /\ UNCHANGED <<mesh, absorbed, lastCall>>

\* only the upper limit of the test of the variance
MutVarianceBelow(goal, n, variance, scale) ==
    10 * goal <= 11 * variance * n * scale

\* aposteriori_variance = goals[-1]/len(residuals) is within 10% of the
\* a priori variance (scale is the factor the goals are multiplied by)
VarianceReached(goal, n, variance, scale) ==
    /\ 10 * goal <= 11 * variance * n * scale
    /\ 10 * goal >= 9 * variance * n * scale

\* grow, the end of a round in which a seed grew or was rearranged
EndRound ==
    /\ pc = "variance"
    /\ IF \/ VarianceReached(Last(goals), Len(misfits),
                             lastCall.apriori_variance,
                             GoalScale(dms, lastCall))
          \/ cur.iteration = Rounds(mesh, seeds)
       THEN /\ pc' = "returned"
            /\ dms' = Return(dms)
            /\ ret' = [estimate |-> estimate, goals |-> goals]
            /\ UNCHANGED <<cur, grew>>
       ELSE /\ pc' = "growth"
            /\ cur' = [iteration |-> cur.iteration + 1, seed_num |-> 1]
            /\ grew' = [grew |-> FALSE, rearanged |-> FALSE]
            /\ UNCHANGED <<dms, ret>>
    /\ UNCHANGED <<mesh, seeds, misfits, goals, estimate, absorbed,
                   accretions, lastCall>>

GrowNext == GrowStart \/ GrowPrepare \/ TryGrow \/ TryRearrange \/ EndRound

(***************************************************************************)
(* The runs of grow of the model: a mesh of one or two rows, one seed or   *)
(* two seeds placed symmetrically, two observation points, and as data     *)
(* the attraction of a body of one or two cells of unit density.  The     *)
(* calls are without regularization (mmi = 0) with the default a priori    *)
(* variance 1 or with 20000, or regularized with power 1.                  *)
(***************************************************************************)
GrowMeshes ==
    {[shape |-> <<1, ny, MaxCells>>, dims |-> <<1, 1, 1>>, mask |-> {}] :
        ny \in 1..2}

GrowSeeds(m) ==
    {<<[param |-> p, density |-> 1, neighbors |-> <<>>]>> : p \in Cells(m)}
    \cup {<<[param |-> p, density |-> 1, neighbors |-> <<>>],
            [param |-> MeshSize(m) - 1 - p, density |-> d,
             neighbors |-> <<>>]>> :
             p \in 0 .. (MeshSize(m) \div 2) - 1, d \in {1, 2}}

\* the observation points: above the two ends of the first row, or above the
\* first cell and the middle of the first row
Observers(m) == {<<0, m.shape[3] - 1>>, <<0, m.shape[3] \div 2>>}

\* the attraction at the observation points of a body of unit density
BodyField(m, at, body) ==
    [p \in 1..Len(at) |->
        SumSeq([c \in 1..MeshSize(m) |->
                   IF c - 1 \in body THEN Attraction(m, at[p], c - 1) ELSE 0])]

Bodies(m) == {b \in SUBSET Cells(m) : Cardinality(b) \in 1..2}

GrowInit ==
    /\ mesh \in GrowMeshes
    /\ seeds \in GrowSeeds(mesh)
    /\ dms = Cleared
    /\ goals = <<>>
    /\ misfits = <<>>
    /\ pc = "grow"
    /\ cur = [iteration |-> 0, seed_num |-> 1]
    /\ grew = [grew |-> FALSE, rearanged |-> FALSE]
    /\ estimate = [c \in Cells(mesh) |-> 0]
    /\ absorbed = <<>>
    /\ accretions = <<>>
    /\ \E at \in Observers(mesh) : \E body \in Bodies(mesh) :
       \E tune \in {<<0, 5, 1>>, <<0, 5, 20000>>, <<1, 1, 1>>} :
           lastCall = GrowCall([comp |-> "gz", at |-> at,
                                value |-> BodyField(mesh, at, body)],
                               tune[1], tune[2], tune[3])
    /\ ret = "none"

GrowSpec == GrowInit /\ [][GrowNext]_vars

(***************************************************************************)
(* The conflict resolution of grow alone, for up to 2*MaxSeeds seeds on a  *)
(* mesh of two rows.                                                       *)
(***************************************************************************)
ConflictMesh ==
    [shape |-> <<1, 2, MaxCells + 1>>, dims |-> <<1, 1, 1>>, mask |-> {}]

\* the cells of a set in increasing order
RECURSIVE Ascending(_)
Ascending(set) ==
    IF set = {} THEN <<>>
    ELSE LET low == CHOOSE c \in set : \A d \in set : c <= d
         IN <<low>> \o Ascending(set \ {low})

ConflictInit ==
    /\ mesh = ConflictMesh
    /\ \E cells \in SUBSET Cells(ConflictMesh) :
           /\ Cardinality(cells) \in 2 .. 2 * MaxSeeds
           /\ \E dens \in [1..Cardinality(cells) -> {1, 2}] :
                  seeds = [k \in 1..Cardinality(cells) |->
                              [param |-> Ascending(cells)[k],
                               density |-> dens[k], neighbors |-> <<>>]]
    /\ dms = Cleared
    /\ goals = <<>>
    /\ misfits = <<>>
    /\ pc = "grow"
    /\ cur = [iteration |-> 0, seed_num |-> 1]
    /\ grew = [grew |-> FALSE, rearanged |-> FALSE]
    /\ estimate = [c \in Cells(ConflictMesh) |-> 0]
    /\ absorbed = <<>>
    /\ accretions = <<>>
    /\ lastCall = GrowCall([comp |-> "gz", at |-> <<0>>, value |-> <<0>>], 0, 5, 1)
    /\ ret = "none"

ConflictSpec == ConflictInit /\ [][GrowStart]_vars


(***************************************************************************)
(* grow on a mesh of three rows, with one seed in the last row, three      *)
(* observation points and the data of a body of three cells: runs with     *)
(* several rearrangements.                                                 *)
(***************************************************************************)
WideMesh == [shape |-> <<1, 3, MaxCells>>, dims |-> <<1, 1, 1>>, mask |-> {}]

\* the observation points: above the two ends of the first row and above a
\* cell in the middle of the second row
WideObservers == <<0, MaxCells - 1, MaxCells + 2>>

WideGrowInit ==
    /\ mesh = WideMesh
    /\ \E p \in 2 * MaxCells .. 3 * MaxCells - 1 :
           seeds = <<[param |-> p, density |-> 1, neighbors |-> <<>>]>>
    /\ dms = Cleared
    /\ goals = <<>>
    /\ misfits = <<>>
    /\ pc = "grow"
    /\ cur = [iteration |-> 0, seed_num |-> 1]
    /\ grew = [grew |-> FALSE, rearanged |-> FALSE]
    /\ estimate = [c \in Cells(mesh) |-> 0]
    /\ absorbed = <<>>
    /\ accretions = <<>>
    /\ \E body \in {b \in SUBSET Cells(mesh) : Cardinality(b) = 3} :
           lastCall = GrowCall([comp |-> "gz", at |-> WideObservers,
                                value |-> BodyField(mesh, WideObservers, body)],
                               0, 5, 1)
    /\ ret = "none"

WideGrowSpec == WideGrowInit /\ [][GrowNext]_vars

(***************************************************************************)
(* The cache of the matrix solver: calls of clear, solve and grow and      *)
(* requests of the Jacobian (_build_pgrav3d_jacobian, as made by           *)
(* calc_adjustment and by the solver solve hands it to) in any order.      *)
(* absorbed remembers the matrix the first request after the last clear    *)
(* returned and counts the calls.                                          *)
(***************************************************************************)
\* no call is running
Idle == pc \in {"idle", "returned", "raised"}

\* the data sets of the calls: two observation points, the attraction of
\* the body made of cells 1 and 2
CacheData(m) ==
    {[comp |-> "gz", at |-> at, value |-> BodyField(m, at, {1, 2})] :
        at \in Observers(m)}

CacheInit ==
    /\ mesh \in GrowMeshes
    /\ seeds = <<>>
    /\ dms = Cleared
    /\ goals = <<>>
    /\ misfits = <<>>
    /\ pc = "idle"
    /\ cur = [iteration |-> 0, seed_num |-> 1]
    /\ grew = [grew |-> FALSE, rearanged |-> FALSE]
    /\ estimate = <<>>
    /\ absorbed = [first |-> None, calls |-> 0]
    /\ accretions = <<>>
    /\ lastCall = NoCall
    /\ ret = "none"

\* clear()
Clear ==
    /\ Idle
    /\ absorbed.calls < MaxCalls
    /\ dms' = Cleared
    /\ absorbed' = [first |-> None, calls |-> absorbed.calls + 1]
    /\ lastCall' = [op |-> "clear"]
    /\ pc' = "idle"
    /\ UNCHANGED <<mesh, seeds, goals, misfits, cur, grew, estimate,
                   accretions, ret>>

\* solve(data, mesh, ...) up to the call of the solver
SolveCall ==
    /\ Idle
    /\ absorbed.calls < MaxCalls
    /\ \E m \in GrowMeshes : \E data \in CacheData(m) :
           /\ mesh' = m
           /\ dms' = [dms EXCEPT !.mesh = <<m>>, !.data = <<data>>,
                                 !.data_vector = <<data.value>>]
           /\ lastCall' = [op |-> "solve", data |-> data]
    /\ absorbed' = [absorbed EXCEPT !.calls = @ + 1]
    /\ pc' = "idle"
    /\ UNCHANGED <<seeds, goals, misfits, cur, grew, estimate, accretions,
                   ret>>

\* _build_pgrav3d_jacobian(estimate)
Request ==
    /\ Idle
    /\ lastCall' = [op |-> "request"]
    /\ pc' = "idle"
    /\ IF dms.mesh = None \/ dms.data = None
       THEN /\ ret' = [raised |-> TRUE, jacobian |-> None]
            /\ UNCHANGED <<dms, absorbed>>
       ELSE /\ dms' = [dms EXCEPT !.jacobian = <<BuildJacobian(dms)>>]
            /\ ret' = [raised |-> FALSE, jacobian |-> dms'.jacobian]
            /\ absorbed' = IF absorbed.first = None
                           THEN [absorbed EXCEPT !.first = dms'.jacobian]
                           ELSE absorbed
    /\ UNCHANGED <<mesh, seeds, goals, misfits, cur, grew, estimate,
                   accretions>>

\* grow(data, mesh, seeds, mmi) is called with one seed in cell 0
GrowCalled ==
    /\ Idle
    /\ absorbed.calls < MaxCalls
    /\ \E m \in GrowMeshes : \E data \in CacheData(m) :
           /\ mesh' = m
           /\ lastCall' = GrowCall(data, 0, 5, 1)
           /\ estimate' = [c \in Cells(m) |-> 0]
    /\ seeds' = <<[param |-> 0, density |-> 1, neighbors |-> <<>>]>>
    /\ absorbed' = [absorbed EXCEPT !.calls = @ + 1]
    /\ goals' = <<>>
    /\ misfits' = <<>>
    /\ pc' = "grow"
    /\ cur' = [iteration |-> 0, seed_num |-> 1]
    /\ grew' = [grew |-> FALSE, rearanged |-> FALSE]
    /\ accretions' = <<>>
    /\ ret' = "none"
    /\ UNCHANGED dms

CacheNext == Clear \/ SolveCall \/ Request \/ GrowCalled \/ GrowNext

CacheSpec == CacheInit /\ [][CacheNext]_vars

(***************************************************************************)
(* Depth weighting of the matrix solver: calls of use_depth_weights and    *)
(* clear in any order, and the solver's calls of its Tikhonov weights      *)
(* builder.  dms holds the globals _depth_weights and _solvers_tk_weights, *)
(* absorbed the attribute _build_tk_weights of the solvers module, which   *)
(* is the module's own builder ("original") or _build_tk_depth_weights     *)
(* ("depth"); cur counts the calls.                                        *)
(***************************************************************************)
\* the meshes of the calls: one column of cells of height dims[3]
HookMeshes ==
    {[shape |-> <<nz, 1, 1>>, dims |-> <<1, 1, dz>>, mask |-> {}] :
        nz \in 1..MaxLen + 1, dz \in 1..2}

\* "weights[i] = (depth + z0)**(-0.25*power)" for power = 4*quarter, in
\* fixed point: twice the depth of the centre of cell c plus z0 is
\* (2k + 1)*dz + 2*z0
DepthWeight(m, c, z0, quarter) ==
    (Scale * Pow(2, quarter))
        \div Pow((2 * CellK(m, c) + 1) * m.dims[3] + 2 * z0, quarter)

\* the weights of use_depth_weights(mesh, z0, power, normalize=...)
DepthWeights(m, z0, quarter, normalize) ==
    LET weights == [c \in 1..MeshSize(m) |-> DepthWeight(m, c - 1, z0, quarter)]
        max == CHOOSE w \in Range(weights) : \A v \in Range(weights) : v <= w
    IN IF normalize /\ max > 0
       THEN [c \in 1..MeshSize(m) |-> (weights[c] * Scale) \div max]
       ELSE weights

HookInit ==
    /\ mesh \in HookMeshes
    /\ seeds = <<>>
    /\ dms = [depth_weights |-> None, solvers_tk_weights |-> None]
    /\ goals = <<>>
    /\ misfits = <<>>
    /\ pc = "idle"
    /\ cur = 0
    /\ grew = FALSE
    /\ estimate = <<>>
    /\ absorbed = [build_tk_weights |-> "original"]
    /\ accretions = <<>>
    /\ lastCall = NoCall
    /\ ret = [raised |-> FALSE, weighted |-> FALSE]

\* use_depth_weights(mesh, z0, power, normalize=...) with z0 and power given
UseDepthWeights ==
    /\ cur < MaxCalls
    /\ \E m \in HookMeshes, z0 \in 0..1, quarter \in 1..2, normalize \in BOOLEAN :
          /\ mesh' = m
          /\ dms' = [depth_weights |-> <<DepthWeights(m, z0, quarter, normalize)>>,
                     solvers_tk_weights |-> <<absorbed.build_tk_weights>>]
          /\ lastCall' = [op |-> "use_depth_weights", z0 |-> z0,
                          power |-> 4 * quarter, normalize |-> normalize]
    /\ absorbed' = [build_tk_weights |-> "depth"]
    /\ cur' = cur + 1
    /\ UNCHANGED <<seeds, goals, misfits, pc, grew, estimate, accretions, ret>>

\* clear(), as far as the depth weights go: the globals are unset and
\* reload(solvers) gives the solvers module its own builder back
ClearWeights ==
    /\ cur < MaxCalls
    /\ dms' = [depth_weights |-> None, solvers_tk_weights |-> None]
    /\ absorbed' = [build_tk_weights |-> "original"]
    /\ lastCall' = [op |-> "clear"]
    /\ cur' = cur + 1
    /\ UNCHANGED <<mesh, seeds, goals, misfits, pc, grew, estimate,
                   accretions, ret>>

\* the solver calls solvers._build_tk_weights(nparams): its own builder
\* returns; _build_tk_depth_weights calls the saved builder first, which
\* never returns when the saved builder is _build_tk_depth_weights itself
BuildTkWeights ==
    /\ lastCall.op # "build_tk_weights"
    /\ lastCall' = [op |-> "build_tk_weights"]
    /\ ret' = IF absorbed.build_tk_weights = "original"
              THEN [raised |-> FALSE, weighted |-> FALSE]
              ELSE IF dms.solvers_tk_weights = <<"original">>
              THEN [raised |-> FALSE, weighted |-> TRUE]
              ELSE [raised |-> TRUE, weighted |-> FALSE]
    /\ UNCHANGED <<mesh, seeds, dms, goals, misfits, pc, cur, grew, estimate,
                   absorbed, accretions>>

HookNext == UseDepthWeights \/ ClearWeights \/ BuildTkWeights

HookSpec == HookInit /\ [][HookNext]_vars

(***************************************************************************)
(* Properties                                                              *)
(***************************************************************************)
\* two seeds have a property name in common
Share(a, b) == DOMAIN seeds[a].props \cap DOMAIN seeds[b].props # {}

\* seed a has been through initialize
Initialized(a) == pc # "initialize" \/ a < cur

SeedIds == 1..Len(seeds)

C2_MisfitDecreases ==
    /\ pc \in {"round", "done"} => Len(misfits) = Len(accretions) + 1
    /\ \A k \in 1..Len(accretions) :
          LET delta == seeds[accretions[k][1]].delta
          IN /\ misfits[k + 1] < misfits[k]
             /\ (misfits[k] - misfits[k + 1]) * delta.den >= delta.num * misfits[k]

\* two different seeds with a positive delta have grown
C2_Witness ==
    /\ Len(accretions) >= 2
    /\ \E h, k \in 1..Len(accretions) : accretions[h][1] # accretions[k][1]
    /\ \A a \in SeedIds : seeds[a].delta.num > 0

\* the cells the seeds can still accrete before their estimates outgrow the mesh
Room == SumSeq([a \in SeedIds |-> MeshSize(mesh) - Len(seeds[a].estimate)])

RoundRank(room, pending, at) ==
    (room + pending) * (Len(seeds) + 2) + (Len(seeds) + 1 - at) + 1

\* the number of steps harvest can still take, at most
Rank ==
    CASE pc = "round" -> RoundRank(Room, IF grew THEN 1 ELSE 0, cur)
      [] pc = "goal" -> RoundRank(Room, 0, 1) + 1
      [] pc = "modules" -> RoundRank(Room, 0, 1) + 1 + (Len(dms) - cur + 1)
      [] pc = "initialize" ->
            RoundRank(Room, 0, 1) + 1 + Len(dms) + (Len(seeds) - cur + 1)
      [] OTHER -> 0

\* C3: harvest terminates.  Every step of harvest lowers a rank that never
\* falls below zero, so only finitely many steps (and accretions) are taken;
\* the call returns at the end of a round in which no seed grew; and no
\* estimate ever holds more cells than the mesh has (a seed performs at most
\* mesh.size - 1 accretions).
C3_Terminates ==
    [][/\ Rank' < Rank
       /\ Rank' >= 0
       /\ pc' = "done" => ~grew'
       /\ \A a \in SeedIds : Len(seeds'[a].estimate) <= MeshSize(mesh')]_vars

\* harvest has returned after a seed filled a mesh of three cells or more
C3_Witness ==
    /\ pc = "done"
    /\ MeshSize(mesh) >= 3
    /\ \E a \in SeedIds : Len(seeds[a].estimate) = MeshSize(mesh)

\* s is a prefix of t
IsPrefix(s, t) == Len(s) <= Len(t) /\ SubSeq(t, 1, Len(s)) = s

\* C4: a step never takes a cell out of an estimate: each seed's estimate
\* after the step starts with its estimate before the step.
C4_EstimateGrows ==
    [][\A a \in SeedIds : IsPrefix(seeds[a].estimate, seeds'[a].estimate)]_vars

\* a seed has accreted two cells
C4_Witness == \E a \in SeedIds : Len(seeds[a].estimate) >= 3

FaceAdjacent(m, n) ==
    {c \in Cells(m) :
        Abs(CellI(m, c) - CellI(m, n)) + Abs(CellJ(m, c) - CellJ(m, n))
            + Abs(CellK(m, c) - CellK(m, n)) = 1}

\* C6: on a mesh without masked cells _find_neighbors(n, full=False) returns
\* exactly the cells one step away from n along exactly one axis.
C6_FaceNeighbors ==
    (lastCall.op = "find_neighbors" /\ ~lastCall.full /\ mesh.mask = {})
        => Range(ret) = FaceAdjacent(mesh, lastCall.n)

\* a call was an update or testdrive with props that lack the tracked property
PropAbsent(call) ==
    call.op \in {"update", "testdrive"} /\ dms[1].prop_type \notin DOMAIN call.props

\* C7: update with props that lack the module's tracked property changes
\* nothing in the module, whatever its kind.
C7_UpdateWithoutPropIsNoOp ==
    [][(lastCall' # lastCall /\ lastCall'.op = "update" /\ PropAbsent(lastCall'))
          => dms' = dms]_vars

\* C8: testdrive leaves predicted and the accumulated cells alone; it can only
\* add the entry of its cell to the effect cache; without the tracked property
\* it changes nothing and returns misfit(predicted).
C8_TestdriveKeepsState ==
    [][(lastCall' # lastCall /\ lastCall'.op = "testdrive")
          => /\ dms'[1] = [dms[1] EXCEPT !.effect = dms'[1].effect]
             /\ DOMAIN dms'[1].effect \subseteq DOMAIN dms[1].effect \cup {lastCall'.index}
             /\ \A c \in DOMAIN dms[1].effect : dms'[1].effect[c] = dms[1].effect[c]
             /\ PropAbsent(lastCall')
                   => dms' = dms /\ ret' = Misfit(dms[1], dms[1].predicted)]_vars

\* a testdrive with the tracked property has run on a module that had absorbed a cell
C8_Witness ==
    /\ lastCall.op = "testdrive"
    /\ ~PropAbsent(lastCall)
    /\ \E p \in 1..Len(dms[1].predicted) : dms[1].predicted[p] # 0
    /\ dms[1].kind # "I2" => lastCall.index \in DOMAIN dms[1].effect

\* C9: a data module is not constructed from arrays of different lengths.
C9_MismatchRejected == pc = "ready" => WellFormed(dms[1])

\* the state is one of a harvest run
InHarvest == pc \in {"initialize", "modules", "goal", "round", "done"}

\* the last call was an update, with the tracked property, of a linear module
JustUpdated ==
    /\ lastCall.op = "update"
    /\ ~PropAbsent(lastCall)
    /\ dms[1].kind # "I2"

\* the effect cache of linear module d holds no cell that update has absorbed
NoAbsorbedCached(d) ==
    dms[d].kind # "I2" => DOMAIN dms[d].effect \cap absorbed[d] = {}

\* C10 as stated: in every state of harvest, and right after any update call
\* with the tracked property, the effect cache of a linear data module holds
\* no cell that update has absorbed.
C10_AbsorbedNeverCached ==
    (InHarvest \/ JustUpdated) => \A d \in 1..Len(dms) : NoAbsorbedCached(d)

\* C10 amended: in every state of harvest the effect cache of a linear data
\* module holds no cell that update has absorbed, and right after any call
\* update(c, props) with the tracked property it does not hold c.
C10_AbsorbedNotCached ==
    /\ InHarvest => \A d \in 1..Len(dms) : NoAbsorbedCached(d)
    /\ JustUpdated => lastCall.index \notin DOMAIN dms[1].effect

\* an accreted cell, cached by the testdrive calls of grow, has been absorbed
\* while other candidates stay cached
C10_Witness ==
    /\ accretions # <<>>
    /\ \E d \in 1..Len(dms) :
          /\ dms[d].kind # "I2"
          /\ dms[d].effect # <<>>
          /\ \E k \in 1..Len(accretions) : accretions[k][2] \in absorbed[d]

\* the sum of the separate contributions of the cells absorbed by the module
SumOfContributions ==
    [p \in 1..NumObs(dms[1]) |->
        SumSeq([i \in 1..MeshSize(mesh) |->
            IF i - 1 \in absorbed[1]
            THEN EffectOfPrism(dms[1], i - 1, CellProps(i - 1))[p]
            ELSE 0])]

\* C11: whatever the order of the update calls on distinct cells, and whatever
\* testdrive calls on the same cells ran in between, the predicted vector of a
\* linear data module is the sum of the separate contributions of the cells
\* updated so far.
C11_UpdatesAdditive ==
    pc = "additive" => dms[1].predicted = SumOfContributions

\* every cell has been updated and a testdrive has put one of them back into
\* the cache
C11_Witness ==
    /\ pc = "additive"
    /\ absorbed[1] = Cells(mesh)
    /\ lastCall.op = "testdrive"
    /\ DOMAIN dms[1].effect # {}

\* the misfit the data modules would have with candidate n added to seed k
HypMisfit(k, n) ==
    SumSeq([d \in 1..Len(dms) |-> Testdrive(dms[d], n, seeds[k].props).value])

\* the goal with candidate n added to seed k: the misfit, the regularization
\* accumulated by all the seeds, and mu times the distance of n to seed k
HypGoal(k, n) ==
    HypMisfit(k, n) + SumSeq([a \in SeedIds |-> seeds[a].reg])
        + (seeds[k].mu * seeds[k].distance[n]) \div Scale

\* candidate n lowers the current misfit of seed k's run by the relative delta
Qualifies(k, n) ==
    LET m == HypMisfit(k, n)
        current == Last(misfits)
    IN /\ m < current
       /\ (current - m) * seeds[k].delta.den >= seeds[k].delta.num * current

\* C12: when a seed takes its turn, grow accretes nothing if no frontier
\* candidate qualifies; otherwise it accretes the qualifying candidate with the
\* lowest hypothetical goal, the first of them in frontier order when several
\* tie, and the goal and misfit of that candidate are recorded.
C12_GrowSelectsBest ==
    [][(pc = "round" /\ cur <= Len(seeds))
          => LET nbrs == seeds[cur].neighbors
                 qualifying == {i \in 1..Len(nbrs) : Qualifies(cur, nbrs[i])}
             IN IF qualifying = {}
                THEN accretions' = accretions /\ goals' = goals /\ misfits' = misfits
                ELSE \E i \in qualifying :
                        /\ \A j \in qualifying :
                              /\ HypGoal(cur, nbrs[i]) <= HypGoal(cur, nbrs[j])
                              /\ j < i => HypGoal(cur, nbrs[i]) < HypGoal(cur, nbrs[j])
                        /\ accretions' = Append(accretions, <<cur, nbrs[i]>>)
                        /\ goals' = Append(goals, HypGoal(cur, nbrs[i]))
                        /\ misfits' = Append(misfits, HypMisfit(cur, nbrs[i]))]_vars

\* the last accretion was chosen in a tie: with mu = 0 and linear modules, a
\* candidate that was in the frontier before the accretion, and still is, gave
\* the same misfit (and goal) as the cell accreted
C12_Witness ==
    /\ accretions # <<>>
    /\ LET k == Last(accretions)[1]
           c == Last(accretions)[2]
           self == seeds[k]
           Before(d) == VecSub(dms[d].predicted, EffectOfPrism(dms[d], c, self.props))
       IN /\ self.mu = 0
          /\ "density" \in DOMAIN self.props
          /\ \A d \in 1..Len(dms) : dms[d].kind # "I2"
          /\ \E c2 \in Range(self.neighbors) :
                /\ c2 \notin Range(FindNeighbors(mesh, c, FALSE, TRUE, TRUE))
                /\ SumSeq([d \in 1..Len(dms) |->
                      Misfit(dms[d], VecAdd(Before(d),
                                            EffectOfPrism(dms[d], c2, self.props)))])
                   = Last(misfits)

\* the seeds, with the frontier of seed b emptied
FrontierEmptied(b) == [seeds EXCEPT ![b].neighbors = <<>>]

\* C13: a seed whose property names are disjoint from those of another seed
\* comes out of initialize, and out of every grow, exactly as it would if the
\* frontier of the other seed were empty: the candidates of the other seed
\* are not excluded.
C13_DisjointSeedsKeepCandidates ==
    [][\A b \in SeedIds :
          (cur \in SeedIds /\ b # cur /\ pc \in {"initialize", "round"} /\ ~Share(cur, b))
             => seeds'[cur] =
                   IF pc = "initialize"
                   THEN Initialize(FrontierEmptied(b), mesh, cur)
                   ELSE Grow(dms, FrontierEmptied(b), mesh, cur, Last(misfits)).seeds[cur]]_vars

\* two seeds without a common property name have a frontier candidate in
\* common after one of them has grown
C13_Witness ==
    /\ accretions # <<>>
    /\ \E a, b \in SeedIds :
          /\ a # b /\ ~Share(a, b)
          /\ seeds[a].props # <<>> /\ seeds[b].props # <<>>
          /\ Range(seeds[a].neighbors) \cap Range(seeds[b].neighbors) # {}

\* the seeds whose property dictionary has the name prop
SeedsWith(prop) == {a \in SeedIds : prop \in DOMAIN seeds[a].props}

\* C14: when harvest has returned, the estimate has one entry for each
\* property name carried by a seed; the cells assigned under a name are exactly
\* the cells in the estimates of the seeds that carry the name; and each cell
\* has the value of the seed whose estimate holds it.
C14_EstimateConcatenated ==
    pc = "done" =>
        /\ DOMAIN estimate = UNION {DOMAIN seeds[a].props : a \in SeedIds}
        /\ \A prop \in DOMAIN estimate :
              /\ DOMAIN estimate[prop]
                    = UNION {Range(seeds[a].estimate) : a \in SeedsWith(prop)}
              /\ \A a \in SeedsWith(prop) : \A c \in Range(seeds[a].estimate) :
                    estimate[prop][c] = seeds[a].props[prop]

\* harvest has returned with two seeds of one property name, of different
\* values, that have both grown
C14_Witness ==
    /\ pc = "done"
    /\ \E a, b \in SeedIds : \E prop \in DOMAIN seeds[a].props \cap DOMAIN seeds[b].props :
          /\ seeds[a].props[prop] # seeds[b].props[prop]
          /\ Len(seeds[a].estimate) >= 2 /\ Len(seeds[b].estimate) >= 2

\* the seed cells, [index, props], in the order of the seeds
SeedCells == [a \in SeedIds |-> [index |-> seeds[a].index, props |-> seeds[a].props]]

\* the predicted data of module d when each seed cell has contributed once
\* and nothing else has
SeedPrediction(d) ==
    IF dms[d].kind = "I2" THEN EffectOfCells(NumObs(dms[d]), SeedCells)
    ELSE [p \in 1..NumObs(dms[d]) |->
             SumSeq([a \in SeedIds |->
                 IF dms[d].prop_type \in DOMAIN seeds[a].props
                 THEN EffectOfPrism(dms[d], seeds[a].index, seeds[a].props)[p]
                 ELSE 0])]

\* C15: when the first growth round starts, every data module has been
\* updated with every seed cell exactly once and with nothing else; and the
\* first entry of the goals and of the misfits is the sum over the data modules
\* of the misfit of the data predicted by the seed cells alone.
C15_SeedsAbsorbedFirst ==
    /\ (pc = "goal" \/ (pc = "round" /\ accretions = <<>>))
          => \A d \in 1..Len(dms) :
                /\ dms[d].predicted = SeedPrediction(d)
                /\ dms[d].kind = "I2" => dms[d].estimate = SeedCells
                /\ absorbed[d] = {seeds[a].index : a \in
                                     {h \in SeedIds : Absorbs(dms[d], seeds[h].props)}}
    /\ pc \in {"round", "done"}
          => /\ goals[1] = SumSeq([d \in 1..Len(dms) |-> Misfit(dms[d], SeedPrediction(d))])
             /\ misfits[1] = goals[1]

\* the first round is about to start for two seeds and two data modules that
\* the seed cells do not fit
C15_Witness ==
    /\ pc = "round" /\ cur = 1 /\ accretions = <<>>
    /\ Len(seeds) >= 2 /\ Len(dms) >= 2
    /\ goals = <<misfits[1]>> /\ goals[1] > 0
    /\ \A d \in 1..Len(dms) : \E p \in 1..NumObs(dms[d]) : dms[d].predicted[p] # 0

\* C16: once harvest has set up its data modules, and until it has returned,
\* the misfit weight of each module is 1 / (norm of its observed data) divided
\* by the number of data modules of the run, also when the modules have been
\* through an earlier run.
C16_WeightDividedOnce ==
    pc \in {"goal", "round", "done"}
        => \A d \in 1..Len(dms) :
              dms[d].weight.num * NormFP(dms[d].data, dms[d].norm) * Len(dms)
                 = Scale * dms[d].weight.den

\* _judge divides by a misfit of zero: "abs(m - misfit)/misfit" is evaluated
\* for the candidates with m < misfit
JudgeDividesByZero(k) ==
    /\ Last(misfits) = 0
    /\ \E n \in Range(seeds[k].neighbors) : HypMisfit(k, n) < Last(misfits)

\* C17: a seed that takes its turn when the misfit is 0 accretes nothing and
\* _judge never divides by the zero misfit; and a run whose first misfit is 0
\* returns without any accretion, goals and misfits holding one entry each.
C17_ZeroMisfitStops ==
    [][/\ (pc = "round" /\ cur <= Len(seeds) /\ Last(misfits) = 0)
            => /\ ~JudgeDividesByZero(cur)
               /\ seeds' = seeds /\ accretions' = accretions
               /\ goals' = goals /\ misfits' = misfits
       /\ (pc' = "done" /\ misfits'[1] = 0)
            => accretions' = <<>> /\ Len(goals') = 1 /\ Len(misfits') = 1]_vars

\* harvest has returned from a run whose first misfit was 0, after a round in
\* which a seed that had candidates took its turn
C17_Witness ==
    /\ pc = "done"
    /\ misfits = <<0>>
    /\ \E a \in SeedIds : seeds[a].neighbors # <<>>

\* what a step leaves alone when it touches no seed, no data module and no
\* trajectory
NothingComputed ==
    /\ seeds' = seeds /\ dms' = dms /\ absorbed' = absorbed
    /\ goals' = goals /\ misfits' = misfits /\ accretions' = accretions
    /\ estimate' = estimate

\* the seeds and the data modules are as their constructors made them
Untouched ==
    /\ \A a \in SeedIds :
          /\ seeds[a].neighbors = <<>>
          /\ seeds[a].estimate = <<seeds[a].index>>
          /\ seeds[a].reg = 0
    /\ \A d \in 1..Len(dms) :
          /\ dms[d].weight = [num |-> Scale, den |-> NormFP(dms[d].data, dms[d].norm)]
          /\ \A p \in 1..NumObs(dms[d]) : dms[d].predicted[p] = 0
          /\ dms[d].effect = <<>>
          /\ dms[d].estimate = <<>>

\* the seeds are of more than one kind
TwoKinds == \E a, b \in SeedIds : seeds[a].kind # seeds[b].kind

\* C18: when the seeds handed to harvest are of more than one kind, the only
\* step harvest takes is the one that raises an error, and it changes no seed,
\* no data module and starts no growth.
C18_MixedKindsRaise ==
    [][TwoKinds
          => /\ pc = "call" /\ pc' = "raised"
             /\ ret' \in {"ValueError: kinds", "NotImplementedError"}
             /\ Untouched /\ NothingComputed]_vars

\* harvest has raised the error of the kinds for seeds of two kinds
C18_Witness ==
    /\ pc = "raised"
    /\ TwoKinds
    /\ ret = "ValueError: kinds"

\* C19: with iterate = True the only step harvest takes is the one that
\* raises the not-implemented error: nothing is returned, and no seed and no
\* data module is changed.
C19_IterateNotImplemented ==
    [][(lastCall.op = "harvest" /\ lastCall.iterate)
          => /\ pc = "call" /\ pc' = "raised"
             /\ ret' = "NotImplementedError"
             /\ Untouched /\ NothingComputed]_vars

\* harvest has raised the not-implemented error for seeds of one kind
C19_Witness ==
    /\ pc = "raised"
    /\ lastCall.iterate
    /\ ~TwoKinds
    /\ ret = "NotImplementedError"

\* the position of the first point of the call that lies in cell c
FirstPointIn(c) ==
    CHOOSE i \in 1..Len(lastCall.cells) :
        lastCall.cells[i] = c /\ \A h \in 1..i - 1 : lastCall.cells[h] # c

\* C20: sow fails only when a point lies in no cell of the mesh (a masked
\* cell), never because two points lie in the same cell.  The seeds returned
\* are in pairwise distinct cells, one for each cell that holds a point, in the
\* order of the first point of each cell, each with the property values of
\* that first point.
C20_SowDropsLaterDuplicates ==
    lastCall.op = "sow" =>
        IF \E i \in 1..Len(lastCall.cells) : ~Present(mesh, lastCall.cells[i])
        THEN ret # "none"
        ELSE /\ ret = "none"
             /\ \A a, b \in SeedIds : a # b => seeds[a].index # seeds[b].index
             /\ {seeds[a].index : a \in SeedIds} = Range(lastCall.cells)
             /\ \A a \in SeedIds :
                   seeds[a].props = PointProps(FirstPointIn(seeds[a].index))
             /\ \A a, b \in SeedIds :
                   a < b => FirstPointIn(seeds[a].index) < FirstPointIn(seeds[b].index)

\* sow has returned two seeds for three points, the point dropped lying in the
\* cell of the first point, between two points that were kept
C20_Witness ==
    /\ lastCall.op = "sow"
    /\ ret = "none"
    /\ Len(lastCall.cells) = 3
    /\ lastCall.cells[1] = lastCall.cells[2]
    /\ lastCall.cells[3] # lastCall.cells[1]
    /\ Len(seeds) = 2

\* the point lies in the closed box of cell c
CellContains(m, c, point) ==
    /\ CellI(m, c) * m.dims[1] * Scale <= point[1]
    /\ point[1] <= (CellI(m, c) + 1) * m.dims[1] * Scale
    /\ CellJ(m, c) * m.dims[2] * Scale <= point[2]
    /\ point[2] <= (CellJ(m, c) + 1) * m.dims[2] * Scale
    /\ CellK(m, c) * m.dims[3] * Scale <= point[3]
    /\ point[3] <= (CellK(m, c) + 1) * m.dims[3] * Scale

\* the cells of the mesh, masked or not, whose box holds the point
CellsAround(m, point) == {c \in Cells(m) : CellContains(m, c, point)}

\* C21: a point outside the bounds of the mesh, or a point all of whose
\* containing cells are masked, gives an error and no seed.
C21_NoSeedOutsideOrMasked ==
    lastCall.op = "get_index"
        => ((\A c \in CellsAround(mesh, lastCall.point) : ~Present(mesh, c))
               => ~ret.ok)

\* C22: when a seed is made from a point within the bounds of the mesh, its
\* index is that of a cell (i, j, k) of the mesh, 0 <= i < nx, 0 <= j < ny,
\* 0 <= k < nz, and that cell contains the point.
C22_IndexContainsPoint ==
    (lastCall.op = "get_index" /\ ret.ok)
        => /\ ret.index \in Cells(mesh)
           /\ CellContains(mesh, ret.index, lastCall.point)

\* C23: in a harvest run whose seeds were placed in cells that are not masked,
\* no masked cell is ever in the frontier or in the estimate of a seed.
C23_MaskedCellsLeftOut ==
    \A a \in SeedIds :
        \A c \in Range(seeds[a].neighbors) \cup Range(seeds[a].estimate) :
            c \in Cells(mesh) /\ Present(mesh, c)

\* harvest has returned on a mesh with a masked cell, a seed having accreted a
\* cell next to the masked one
C23_Witness ==
    /\ pc = "done"
    /\ mesh.mask # {}
    /\ \E a \in SeedIds : \E c \in Range(seeds[a].estimate) : \E masked \in mesh.mask :
          /\ c # seeds[a].index
          /\ masked \in FaceAdjacent(mesh, c)

FirstNeighbors(k) ==
    Range(AddNeighbors(seeds[k].param, <<>>, <<>>, mesh.shape, estimate))

\* two seeds of different densities whose first neighbors have a cell in common
TooClose ==
    \E a, b \in 1..Len(seeds) :
        /\ seeds[a].density # seeds[b].density
        /\ FirstNeighbors(a) \cap FirstNeighbors(b) # {}

\* C25: when the first neighbourhoods of two seeds of different densities
\* have a cell in common, grow raises 'too close' and does not get past the
\* conflict resolution
C25_OverlapAborts == pc = "jacobian" => ~TooClose

\* C26: once the conflict resolution has passed, grow raises no error: the
\* only error of a call is 'too close'
C26_RoundsRaiseNothing == pc = "raised" => ret = "AttributeError: too close"

\* goals[-1]/N is within 10% of the a priori variance, N the number of
\* observations (the goals are kept multiplied by GoalScale)
InTenPercent ==
    LET n == Len(lastCall.data.value)
        expected == lastCall.apriori_variance * n * GoalScale(dms, lastCall)
    IN 9 * expected <= 10 * Last(goals) /\ 10 * Last(goals) <= 11 * expected

\* C27: a round that ends with goals[-1]/N within 10% of the a priori
\* variance is the last one and so is the round numbered mesh.size -
\* len(seeds); any other round in which a seed grew or was rearranged is
\* followed by another round; grow returns from the rearrangement exactly
\* when no seed grew and none was rearranged in the round, never from the
\* middle of the growth, and the rounds are never more than mesh.size -
\* len(seeds)
C27_RoundLoopExits ==
    [][/\ pc = "variance" =>
              (pc' = "returned"
                   <=> InTenPercent \/ cur.iteration = Rounds(mesh, seeds))
       /\ pc = "variance" /\ pc' # "returned" =>
              pc' = "growth" /\ cur'.iteration = cur.iteration + 1
       /\ pc = "rearrange" /\ pc' = "returned" =>
              ~grew.grew /\ ~grew.rearanged /\ goals' = goals
       /\ pc = "rearrange" /\ cur.seed_num = Len(seeds) /\ pc' = "rearrange"
              => FALSE
       /\ pc = "rearrange" /\ cur.seed_num = Len(seeds) /\ pc' = "variance"
              => grew'.rearanged
       /\ pc = "growth" => pc' \in {"growth", "variance", "rearrange"}
       /\ pc' = "variance" => grew'.grew \/ grew'.rearanged
       /\ pc' = "rearrange" => ~grew'.grew
       /\ cur'.iteration <= Rounds(mesh, seeds)]_vars

\* grow has returned before its last round, from the end of a round in which
\* a seed grew and the variance came within 10% of the a priori variance
C27_Witness ==
    /\ pc = "returned"
    /\ cur.iteration \in 1 .. Rounds(mesh, seeds) - 1
    /\ grew.grew
    /\ InTenPercent

\* C28: between two calls of clear() every request of the Jacobian returns
\* the matrix the first of them returned, whatever solve and grow were
\* called with in between
C28_SameMatrixUntilCleared ==
    lastCall.op = "request" /\ ~ret.raised => ret.jacobian = absorbed.first

\* the cells seed k has accreted, in order
AccretedBy(k) ==
    LET own == {a \in 1..Len(accretions) : accretions[a][1] = k}
        Nth(i) == CHOOSE a \in own : Cardinality({b \in own : b < a}) = i - 1
    IN [i \in 1..Cardinality(own) |-> accretions[Nth(i)][2]]

\* the sum of mu * distance over the cells seed k has accreted
Compactness(k) ==
    SumSeq([i \in 1..Len(AccretedBy(k)) |->
               (seeds[k].mu * DistanceTo(seeds[k], mesh, AccretedBy(k)[i]))
                   \div Scale])

\* C29: from the first goal on, the last goal of a harvest run is the last
\* misfit plus the regularization terms of all seeds, the term of a seed being
\* the sum of mu * distance over the cells it accreted
C29_GoalIsMisfitPlusRegularizer ==
    pc \in {"round", "done"} =>
        /\ \A k \in 1..Len(seeds) : seeds[k].reg = Compactness(k)
        /\ Last(goals) = Last(misfits)
                         + SumSeq([k \in 1..Len(seeds) |-> Compactness(k)])

C29_Witness ==
    /\ pc = "round"
    /\ Len(seeds) = 2
    /\ \A k \in 1..2 : AccretedBy(k) # <<>> /\ Compactness(k) > 0
    /\ Last(goals) > Last(misfits)

\* C30: from the first goal on, at the end of every round and after every
\* accretion the modules have been updated with, the last misfit of the run
\* is the sum of the misfits of the modules' predicted data
C30_MisfitIsMisfitOfPredicted ==
    pc \in {"round", "done"} =>
        Last(misfits) = SumSeq([d \in 1..Len(dms) |->
                                   Misfit(dms[d], dms[d].predicted)])

C30_Witness ==
    /\ pc = "round"
    /\ cur > Len(seeds)
    /\ Len(dms) = 2
    /\ Len(accretions) >= 2
    /\ Last(misfits) < misfits[1]

\* the seed cells followed by the first n accreted cells, each with the
\* properties of its seed
CellsAfter(n) ==
    SeedCells \o [a \in 1..n |->
                     [index |-> accretions[a][2],
                      props |-> seeds[accretions[a][1]].props]]

\* the data of module d predicted from the cells alone
PredictionOf(d, cells) ==
    IF dms[d].kind = "I2" THEN EffectOfCells(NumObs(dms[d]), cells)
    ELSE FieldOfCells(dms[d].kind, NumObs(dms[d]), cells)

\* the misfit of the data predicted from the cells
MisfitOf(cells) ==
    SumSeq([d \in 1..Len(dms) |-> Misfit(dms[d], PredictionOf(d, cells))])

\* C31: in a round, every seed takes its turn with the modules updated with
\* every cell accreted so far, the one accreted by the seed before it
\* included; the misfit it records is the misfit of those cells and its own
\* new cell, and it is lower than the misfit appended last
C31_NextSeedSeesAbsorbed ==
    /\ pc = "round" =>
          /\ \A d \in 1..Len(dms) :
                dms[d].predicted = PredictionOf(d, CellsAfter(Len(accretions)))
          /\ Len(misfits) = Len(accretions) + 1
          /\ Len(goals) = Len(misfits)
    /\ pc = "round" =>
          \A a \in 1..Len(accretions) :
             /\ misfits[a + 1] = MisfitOf(CellsAfter(a))
             /\ misfits[a + 1] < misfits[a]

\* both seeds grew in the first round, the second after the first
C31_Witness ==
    /\ pc = "round"
    /\ Len(seeds) = 2
    /\ cur = 3
    /\ Len(accretions) = 2
    /\ accretions[1][1] = 1
    /\ accretions[2][1] = 2
    /\ misfits[3] < misfits[2]
    /\ misfits[2] < misfits[1]

\* the cells next to n that seed k may take when it accretes n: not masked,
\* and in neither the estimate nor the frontier of a seed that shares a
\* property name with k
Unclaimed(k, n, near) ==
    {c \in near :
        /\ Present(mesh, c)
        /\ \A j \in SeedIds :
              Share(k, j) => /\ c \notin Range(seeds[j].estimate)
                             /\ c \notin Range(seeds[j].neighbors)}

\* what the accretion of cell n by seed k changes, near being the cells next
\* to n
GrowChanges(k, n, near) ==
    LET old == seeds[k].neighbors
        after == seeds'[k].neighbors
        at == CHOOSE i \in 1..Len(old) : old[i] = n /\ \A h \in 1..i - 1 : old[h] # n
        kept == [i \in 1..Len(old) - 1 |-> IF i < at THEN old[i] ELSE old[i + 1]]
        fresh == Unclaimed(k, n, near)
        term == (seeds[k].mu * DistanceTo(seeds[k], mesh, n)) \div Scale
    IN /\ n \in Range(old)
       /\ seeds'[k].estimate = Append(seeds[k].estimate, n)
       /\ seeds'[k].reg = seeds[k].reg + term
       /\ Len(after) = Len(kept) + Cardinality(fresh)
       /\ SubSeq(after, 1, Len(kept)) = kept
       /\ {after[i] : i \in Len(kept) + 1 .. Len(after)} = fresh
       /\ DOMAIN seeds'[k].distance = (DOMAIN seeds[k].distance \ {n}) \cup fresh
       /\ \A c \in DOMAIN seeds'[k].distance :
             seeds'[k].distance[c] = DistanceTo(seeds[k], mesh, c)
       /\ \A j \in SeedIds \ {k} : seeds'[j] = seeds[j]
       /\ [seeds'[k] EXCEPT !.estimate = 0, !.reg = 0, !.neighbors = 0, !.distance = 0]
              = [seeds[k] EXCEPT !.estimate = 0, !.reg = 0, !.neighbors = 0, !.distance = 0]

\* C32: a step in which a seed accretes a cell appends the cell to the seed's
\* estimate, adds mu * distance to its regularization, takes the cell out of
\* its frontier and distance table, appends the unclaimed cells one step away
\* from the cell to the frontier with their distances, and changes nothing
\* else of any seed
C32_GrowChangesExactlyThis ==
    [][Len(accretions') = Len(accretions) + 1
          => GrowChanges(cur, Last(accretions')[2],
                         FaceAdjacent(mesh, Last(accretions')[2]))]_vars

\* C33: the frontiers of two different seeds that share a property name have
\* no cell in common, from the construction of the seeds to the return of
\* harvest; and the cell a seed accretes was in the frontier of no such seed
C33_SharingFrontiersDisjoint ==
    [][/\ \A a, b \in SeedIds :
             (a # b /\ Share(a, b))
                => Range(seeds[a].neighbors) \cap Range(seeds[b].neighbors) = {}
       /\ Len(accretions') = Len(accretions) + 1
             => \A b \in SeedIds \ {cur} :
                   Share(cur, b)
                      => Last(accretions')[2] \notin Range(seeds[b].neighbors)]_vars

\* two seeds that share a property meet: a cell in the frontier of one is
\* next to a cell accreted by the other
C33_Witness ==
    /\ pc = "round"
    /\ \E a, b \in SeedIds :
          /\ a # b /\ Share(a, b)
          /\ \E c \in Range(seeds[a].neighbors) :
                FaceAdjacent(mesh, c) \cap Range(Tail(seeds[b].estimate)) # {}

\* C34: when harvest has returned, no candidate in the frontier of any seed
\* would give an aggregate misfit that is below the final misfit by the
\* seed's relative delta or more
C34_ReturnIsFixpoint ==
    pc = "done" =>
        \A k \in SeedIds : \A c \in Range(seeds[k].neighbors) :
            LET m == HypMisfit(k, c)
                final == Last(misfits)
            IN ~(/\ m < final
                 /\ (final - m) * seeds[k].delta.den >= seeds[k].delta.num * final)

\* harvest has returned after an accretion, leaving a candidate that would
\* lower the misfit, by less than delta
C34_Witness ==
    /\ pc = "done"
    /\ accretions # <<>>
    /\ \E k \in SeedIds : \E c \in Range(seeds[k].neighbors) :
          HypMisfit(k, c) < Last(misfits)

\* the contribution of cell c with exactly the properties props to the data of
\* a module of component comp with n observation points
Contribution(comp, n, c, props) ==
    [p \in 1..n |->
        IF "density" \in DOMAIN props THEN props["density"] * Kernel(comp, c, p)
        ELSE 0]

\* C35: whatever update and testdrive calls came before, testdrive(c, props)
\* on a module that is not the invariant module returns the misfit of the
\* current predicted data plus the contribution of cell c with exactly the
\* properties props
C35_TestdriveOfGivenProps ==
    [][(pc = "ready" /\ dms[1].kind # "I2" /\ lastCall'.op = "testdrive")
          => ret' = Misfit(dms[1],
                        VecAdd(dms[1].predicted,
                               Contribution(dms[1].kind, NumObs(dms[1]),
                                            lastCall'.index, lastCall'.props)))]_vars

\* the list holds no value twice
NoRepeats(list) == Cardinality(Range(list)) = Len(list)

\* C36: throughout a harvest run, the frontier of a seed that has at least
\* one property holds no cell twice and no cell of the seed's own estimate,
\* and its estimate holds no cell twice
C36_FrontierAndEstimateAreSets ==
    \A k \in SeedIds :
        DOMAIN seeds[k].props # {}
           => /\ NoRepeats(seeds[k].neighbors)
              /\ NoRepeats(seeds[k].estimate)
              /\ Range(seeds[k].neighbors) \cap Range(seeds[k].estimate) = {}

\* a seed has accreted two cells and still has candidates, one of them next
\* to two cells of its estimate
C36_Witness ==
    /\ pc = "round"
    /\ \E k \in SeedIds :
          /\ DOMAIN seeds[k].props # {}
          /\ Len(seeds[k].estimate) >= 3
          /\ \E c \in Range(seeds[k].neighbors) :
                Cardinality(FaceAdjacent(mesh, c) \cap Range(seeds[k].estimate)) >= 2

\* the number of cells marked by the seeds of grow
Marked == SumSeq([k \in 1..Len(accretions) |-> Len(accretions[k])])

\* C37: every goal that grow appends, after a growth or a rearrangement, is
\* lower than the goal before it, and the goals grow returns are these
C37_GoalsStrictlyDecrease ==
    /\ pc \in {"growth", "rearrange", "variance", "returned"}
          => \A i \in 1..Len(goals) - 1 : goals[i + 1] < goals[i]
    /\ pc = "returned" => ret.goals = goals

\* grow has returned after growth steps and at least one rearrangement
C37_Witness ==
    /\ pc = "returned"
    /\ Marked >= 1
    /\ Len(goals) - 1 > Marked

\* the seeds whose neighbour list holds cell c
Holders(c) == {k \in 1..Len(seeds) : c \in Range(seeds[k].neighbors)}

\* C38: when the conflict resolution has passed for seeds of one density,
\* every cell of a first neighbourhood is in the neighbour list of exactly
\* one seed
C38_SharedCellsInOneList ==
    (pc = "jacobian" /\ \A a, b \in 1..Len(seeds) : seeds[a].density = seeds[b].density)
       => \A k \in 1..Len(seeds) : \A c \in FirstNeighbors(k) :
             Cardinality(Holders(c)) = 1

\* the data minus the forward response of the estimate est, computed from
\* the attraction of every cell at every observation point
FullResiduals(est) ==
    [p \in 1..Len(lastCall.data.value) |->
        lastCall.data.value[p]
        - SumSeq([c \in 1..MeshSize(mesh) |->
                     est[c - 1] * Attraction(mesh, lastCall.data.at[p], c - 1)])]

\* C39: from the start of the first round to the return of grow, the
\* residuals kept by the incremental updates are the data minus the forward
\* response of the current estimate
C39_ResidualsAgreeWithEstimate ==
    pc \in {"growth", "rearrange", "variance", "returned"}
        => misfits = FullResiduals(estimate)

\* C40: whatever calls of use_depth_weights and clear were made, the saved
\* builder is unset or the solvers module's own builder, never
\* _build_tk_depth_weights, and a call of the weights builder returns
C40_SavedBuilderIsOriginal ==
    /\ dms.solvers_tk_weights # <<"depth">>
    /\ lastCall.op = "build_tk_weights" => ~ret.raised

====
